---- MODULE Spec2Model ----
(***************************************************************************)
(* VPS plan aggregation: six provider loaders (DigitalOcean, Hetzner,      *)
(* Linode, Vultr, UpCloud, Scaleway) and the content collection loader     *)
(* that runs them with Promise.all and concatenates their results.         *)
(*                                                                         *)
(* Encoding of JavaScript values:                                          *)
(*  - a number is a normalised fraction [num, den]; NaN is [0, 0];         *)
(*  - a product the code takes in doubles is rounded to 53 bits, to the    *)
(*    nearest value and to even on a tie, as IEEE 754 has it;              *)
(*  - a string is a tuple of fragments; identifiers whose letter case the  *)
(*    code touches are written one character per fragment;                 *)
(*  - an optional value is <<>> (undefined) or <<v>>;                      *)
(*  - byte counts of the Scaleway API are carried in MiB (2^20 bytes),     *)
(*    the values of the API being outside the checker's integer range.     *)
(***************************************************************************)
EXTENDS Integers, Sequences, FiniteSets, TLC

VARIABLES
    env,        \* process.env: the variables the loaders read
    pc,         \* per loader: "idle", "fetching", "parsing", "done"
    net,        \* per loader: the fetch outcomes its Promise.all settled with
    body,       \* per loader: what the response bodies parsed to
    outcome,    \* per loader: "pending", "resolved", "rejected" (its promise)
    result,     \* per loader: the sequence its promise resolved to
    warns,      \* per loader: number of console.warn calls
    errors,     \* per loader: number of console.error calls
    requests,   \* per loader: number of HTTP requests issued
    lpc,        \* collection loader: "idle", "awaiting", "resolved", "rejected"
    allPlans,   \* collection loader: the sequence it resolved to
    outOfOrder, \* history: some loader settled while one registered before it was pending
    logged,     \* per loader: the message of the error its catch block logged last
    reads       \* per loader: number of response.json() calls made in this call

vars == <<env, pc, net, body, outcome, result, warns, errors, requests, lpc, allPlans,
          outOfOrder, logged, reads>>

----------------------------------------------------------------------------
(* Bounds of the model *)

MaxPlans == 2       \* raw plans in one upstream listing
MaxRegions == 12    \* regions / locations / zones in one upstream listing
MaxPrices == 3      \* entries of one Hetzner prices list

----------------------------------------------------------------------------
(* Numbers *)

RECURSIVE GCD(_, _)
GCD(a, b) == IF b = 0 THEN a ELSE GCD(b, a % b)

\* The fraction n/d (d > 0, n >= 0) in lowest terms.
Rat(n, d) == LET g == GCD(n, d) IN [num |-> n \div g, den |-> d \div g]

Num(n) == Rat(n, 1)

NaN == [num |-> 0, den |-> 0]

IsNaN(x) == x.den = 0

\* JavaScript's < and <=, >= on numbers: every comparison with NaN is false.
NumLess(x, y) == ~IsNaN(x) /\ ~IsNaN(y) /\ x.num * y.den < y.num * x.den
NumLeq(x, y) == ~IsNaN(x) /\ ~IsNaN(y) /\ x.num * y.den <= y.num * x.den
NumGeq(x, y) == NumLeq(y, x)

NumDiv(x, k) == IF IsNaN(x) THEN NaN ELSE Rat(x.num, x.den * k)
NumMul(x, k) == IF IsNaN(x) THEN NaN ELSE Rat(x.num * k, x.den)
NumAdd(x, y) == IF IsNaN(x) \/ IsNaN(y) THEN NaN
                ELSE Rat(x.num * y.den + y.num * x.den, x.den * y.den)

\* Math.round of a non-negative number: floor(x + 1/2).
MathRound(x) == IF IsNaN(x) THEN NaN ELSE Num((2 * x.num + x.den) \div (2 * x.den))

----------------------------------------------------------------------------
(* IEEE 754 doubles *)

\* The products of fetchUpCloudPlans are taken in doubles, and whether
\* Math.round goes up or down at a half depends on their rounding errors. A
\* double is m * 2^(-e), its mantissa m a natural number of at most 53 bits
\* kept as a sequence of limbs to the base 1024, the lowest first.

RECURSIVE Pow2(_)
Pow2(k) == IF k = 0 THEN 1 ELSE 2 * Pow2(k - 1)

RECURSIVE BigOf(_)
BigOf(n) == IF n = 0 THEN <<>> ELSE <<n % 1024>> \o BigOf(n \div 1024)

RECURSIVE BigToInt(_)
BigToInt(b) == IF b = <<>> THEN 0 ELSE b[1] + 1024 * BigToInt(Tail(b))

RECURSIVE Trim(_)
Trim(b) ==
    IF b = <<>> THEN b
    ELSE IF b[Len(b)] = 0 THEN Trim(SubSeq(b, 1, Len(b) - 1)) ELSE b

\* b * k from limb i on, for a small k.
RECURSIVE BigMul(_, _, _, _)
BigMul(b, k, i, carry) ==
    IF i > Len(b) THEN BigOf(carry)
    ELSE LET t == b[i] * k + carry
         IN  <<t % 1024>> \o BigMul(b, k, i + 1, t \div 1024)

\* Quotient and remainder of the limbs 1..i of b, with r carried in from the
\* limbs above, by a small k.
RECURSIVE BigDivRem(_, _, _, _)
BigDivRem(b, k, i, r) ==
    IF i = 0 THEN [q |-> <<>>, r |-> r]
    ELSE LET t == r * 1024 + b[i]
             rest == BigDivRem(b, k, i - 1, t % k)
         IN  [q |-> rest.q \o <<t \div k>>, r |-> rest.r]

RECURSIVE BitLengthOf(_)
BitLengthOf(n) == IF n = 0 THEN 0 ELSE 1 + BitLengthOf(n \div 2)

BitLength(b) == IF b = <<>> THEN 0 ELSE (Len(b) - 1) * 10 + BitLengthOf(b[Len(b)])

Bit(b, i) ==
    IF i \div 10 + 1 > Len(b) THEN 0 ELSE (b[i \div 10 + 1] \div Pow2(i % 10)) % 2

\* No bit of b below bit i is set.
LowBitsZero(b, i) ==
    /\ \A l \in 1..(i \div 10) : l > Len(b) \/ b[l] = 0
    /\ i \div 10 + 1 > Len(b) \/ b[i \div 10 + 1] % Pow2(i % 10) = 0

ShiftRight(b, s) ==
    IF s \div 10 >= Len(b) THEN <<>>
    ELSE LET top == SubSeq(b, s \div 10 + 1, Len(b))
         IN  Trim(BigDivRem(top, Pow2(s % 10), Len(top), 0).q)

RECURSIVE BigInc(_, _)
BigInc(b, i) ==
    IF i > Len(b) THEN <<1>>
    ELSE IF b[i] = 1023 THEN <<0>> \o BigInc(b, i + 1)
    ELSE <<b[i] + 1>> \o SubSeq(b, i + 1, Len(b))

\* Round to nearest, ties to even: b, followed by a non-zero fraction when
\* sticky, cut to 53 bits; s is the number of bits cut off.
RoundTo53(b, sticky) ==
    LET s == IF BitLength(b) > 53 THEN BitLength(b) - 53 ELSE 0
        q == ShiftRight(b, s)
        up == /\ s > 0
              /\ Bit(b, s - 1) = 1
              /\ (~LowBitsZero(b, s - 1) \/ sticky \/ Bit(b, s) = 1)
    IN  [m |-> IF up THEN BigInc(q, 1) ELSE q, s |-> s]

\* The double nearest to the non-negative fraction x: x * 2^80 cut to 53 bits.
DoubleOf(x) ==
    LET d == BigDivRem(<<0, 0, 0, 0, 0, 0, 0, 0>> \o BigOf(x.num), x.den,
                       8 + Len(BigOf(x.num)), 0)
        r == RoundTo53(Trim(d.q), d.r # 0)
    IN  [m |-> r.m, e |-> 80 - r.s]

\* The double product of the double x and a small natural number k.
DoubleTimes(x, k) ==
    LET r == RoundTo53(Trim(BigMul(x.m, k, 1, 0)), FALSE)
    IN  [m |-> r.m, e |-> x.e - r.s]

\* Math.round of a non-negative double below 2^29: floor((floor(2x) + 1) / 2).
DoubleRound(x) ==
    IF x.e >= 1 THEN (BigToInt(ShiftRight(x.m, x.e - 1)) + 1) \div 2
    ELSE BigToInt(x.m) * Pow2(0 - x.e)

----------------------------------------------------------------------------
(* Strings *)

Digits == <<"0", "1", "2", "3", "4", "5", "6", "7", "8", "9">>
UpperLetters == <<"A", "B", "C", "D", "E", "F", "G", "H", "I", "J", "K", "L", "M",
                  "N", "O", "P", "Q", "R", "S", "T", "U", "V", "W", "X", "Y", "Z">>
LowerLetters == <<"a", "b", "c", "d", "e", "f", "g", "h", "i", "j", "k", "l", "m",
                  "n", "o", "p", "q", "r", "s", "t", "u", "v", "w", "x", "y", "z">>

IsDigit(c) == \E i \in DOMAIN Digits : Digits[i] = c
DigitValue(c) == (CHOOSE i \in DOMAIN Digits : Digits[i] = c) - 1

LowerChar(c) == IF \E i \in DOMAIN UpperLetters : UpperLetters[i] = c
                THEN LowerLetters[CHOOSE i \in DOMAIN UpperLetters : UpperLetters[i] = c]
                ELSE c
UpperChar(c) == IF \E i \in DOMAIN LowerLetters : LowerLetters[i] = c
                THEN UpperLetters[CHOOSE i \in DOMAIN LowerLetters : LowerLetters[i] = c]
                ELSE c

\* String.prototype.toLowerCase / toUpperCase on a character-wise string.
ToLowerCase(s) == [i \in DOMAIN s |-> LowerChar(s[i])]
ToUpperCase(s) == [i \in DOMAIN s |-> UpperChar(s[i])]

\* String.prototype.includes: t occurs in s as a contiguous run.
StrIncludes(s, t) ==
    \E k \in 0..(Len(s) - Len(t)) : \A i \in 1..Len(t) : s[k + i] = t[i]

\* Array.prototype.includes
Includes(seq, x) == \E i \in DOMAIN seq : seq[i] = x

\* Array.prototype.slice(0, n)
Slice(seq, n) == IF Len(seq) <= n THEN seq ELSE SubSeq(seq, 1, n)

\* Array.prototype.filter with the predicate given as the set of kept indices.
RECURSIVE FilterIdx(_, _, _)
FilterIdx(seq, keep, i) ==
    IF i > Len(seq) THEN <<>>
    ELSE (IF i \in keep THEN <<seq[i]>> ELSE <<>>) \o FilterIdx(seq, keep, i + 1)

\* Number of leading decimal digits of s from position i on.
RECURSIVE DigitRun(_, _)
DigitRun(s, i) == IF i <= Len(s) /\ IsDigit(s[i]) THEN 1 + DigitRun(s, i + 1) ELSE 0

RECURSIVE DigitsValue(_, _, _)
DigitsValue(s, i, n) ==
    IF n = 0 THEN 0 ELSE DigitsValue(s, i, n - 1) * 10 + DigitValue(s[i + n - 1])

RECURSIVE Pow10(_)
Pow10(n) == IF n = 0 THEN 1 ELSE 10 * Pow10(n - 1)

\* parseFloat on a string of digits and ".": the longest numeric prefix
\* (digits, an optional "." and digits); NaN when that prefix has no digit.
ParseFloat(s) ==
    LET ni == DigitRun(s, 1)
        dot == ni + 1 <= Len(s) /\ s[ni + 1] = "."
        nf == IF dot THEN DigitRun(s, ni + 2) ELSE 0
    IN  IF ni + nf = 0 THEN NaN
        ELSE Rat(DigitsValue(s, 1, ni) * Pow10(nf) + DigitsValue(s, ni + 2, nf), Pow10(nf))

----------------------------------------------------------------------------
(* Environment and registration *)

\* The loaders in the order the collection loader registers them.
Adapters == <<"digitalocean", "hetzner", "linode", "vultr", "upcloud", "scaleway">>
AdapterSet == {Adapters[i] : i \in DOMAIN Adapters}

EnvVars == {"DIGITALOCEAN_API_KEY", "HETZNER_API_KEY", "VULTR_API_KEY",
            "UPCLOUD_USERNAME", "UPCLOUD_PASSWORD", "SCALEWAY_API_KEY",
            "HETZNER_INCLUDE_ARM"}

\* JavaScript truthiness of an environment variable: set and not empty.
Truthy(v) == v # <<>> /\ v[1] # ""

\* Number.prototype.toString of a natural number, one character per digit.
RECURSIVE DecimalString(_)
DecimalString(n) ==
    IF n < 10 THEN <<Digits[n + 1]>> ELSE DecimalString(n \div 10) \o <<Digits[(n % 10) + 1]>>

\* What a callback over a listing yields: the records, or an exception.
Returned(plans) == [thrown |-> FALSE, plans |-> plans]
Thrown == [thrown |-> TRUE, plans |-> <<>>]

----------------------------------------------------------------------------
(* DigitalOcean *)

DORegionSlug(i) == <<"r">> \o DecimalString(i)

\* The i-th entry of the regions listing; the second region is not available.
DORegion(i) ==
    [slug |-> DORegionSlug(i),
     name |-> <<"Region ">> \o DecimalString(i),
     available |-> i # 2]

DORegionList(n) == [i \in 1..n |-> DORegion(i)]

DOSize(slug, available, memory, vcpus, disk, transfer, price, regions, description) ==
    [slug |-> slug, available |-> available, memory |-> memory, vcpus |-> vcpus,
     disk |-> disk, transfer |-> transfer, price_monthly |-> price,
     regions |-> regions, description |-> description]

DOAllSlugs == <<[i \in 1..(MaxRegions + 1) |-> DORegionSlug(i)]>>

DOBasic ==
    DOSize(<<"s", "-", "1", "v", "c", "p", "u", "-", "1", "g", "b">>, TRUE, 1024, 1, 25, 1, 6,
           DOAllSlugs, << <<"Basic">> >>)

\* Sample sizes of the sizes listing (regions of <<>>: the field is missing).
DOSizes ==
    { DOSize(<<"s", "-", "5", "1", "2", "m", "b">>, TRUE, 512, 1, 10, 1, 4, DOAllSlugs, <<>>),
      DOBasic,
      DOSize(<<"s", "-", "2", "v", "c", "p", "u", "-", "2", "g", "b">>, TRUE, 2048, 2, 60, 3, 18,
             << <<DORegionSlug(1), DORegionSlug(2), DORegionSlug(3)>> >>, <<>>),
      DOSize(<<"S", "-", "4", "V", "C", "P", "U">>, TRUE, 8192, 4, 160, 5, 48, DOAllSlugs, <<>>),
      DOSize(<<"s", "-", "o", "d", "d">>, TRUE, 1023, 1, 25, 1, 10, DOAllSlugs, <<>>),
      DOSize(<<"s", "-", "o", "l", "d">>, FALSE, 4096, 2, 80, 4, 24, DOAllSlugs, <<>>),
      DOSize(<<"s", "-", "t", "i", "n", "y">>, TRUE, 256, 1, 5, 1, 2, DOAllSlugs, <<>>),
      DOSize(<<"s", "-", "b", "a", "d">>, TRUE, 1024, 1, 25, 1, 6, <<>>, <<>>) }

\* A region filter that does not look at region.available.
DORegionsOfSize(size, regions) ==
    LET keep == {i \in DOMAIN regions : Includes(size.regions[1], regions[i].slug)}
        kept == FilterIdx(regions, keep, 1)
    IN  [i \in DOMAIN kept |-> kept[i].name]

\* regions.filter(region.available && size.regions.includes(region.slug)).map(name)
DOAvailableRegions(size, regions) ==
    LET keep == {i \in DOMAIN regions :
                    regions[i].available /\ Includes(size.regions[1], regions[i].slug)}
        kept == FilterIdx(regions, keep, 1)
    IN  [i \in DOMAIN kept |-> kept[i].name]

\* size.regions.includes is evaluated (and throws on a missing regions field)
\* for the first available region of the listing.
DOThrows(size, regions) ==
    size.regions = <<>> /\ \E i \in DOMAIN regions : regions[i].available

\* Tags whose budget tag needs a price strictly below 10.
DOTagsBelowTen(size) ==
    <<"cloud", "scalable", "developer-friendly", "popular">>
    \o (IF size.price_monthly < 10 THEN <<"budget">> ELSE <<>>)
    \o (IF size.vcpus >= 4 THEN <<"high-performance">> ELSE <<>>)
    \o (IF size.memory >= 8192 THEN <<"high-memory">> ELSE <<>>)

DOTags(size) ==
    <<"cloud", "scalable", "developer-friendly", "popular">>
    \o (IF size.price_monthly <= 10 THEN <<"budget">> ELSE <<>>)
    \o (IF size.vcpus >= 4 THEN <<"high-performance">> ELSE <<>>)
    \o (IF size.memory >= 8192 THEN <<"high-memory">> ELSE <<>>)

DORam(size) ==
    [amount |-> IF size.memory >= 1024 THEN Rat(size.memory, 1024) ELSE Num(size.memory),
     unit |-> IF size.memory >= 1024 THEN "GB" ELSE "MB"]

DOFeatured(size) ==
    Includes(<< <<"s", "-", "1", "v", "c", "p", "u", "-", "1", "g", "b">>,
                <<"s", "-", "2", "v", "c", "p", "u", "-", "2", "g", "b">> >>, size.slug)

DOPlan(size, regions) ==
    [id |-> <<"digitalocean-">> \o size.slug,
     provider |-> "DigitalOcean",
     name |-> IF size.description # <<>> /\ size.description[1] # <<>>
              THEN size.description[1]
              ELSE DecimalString(size.memory) \o <<"MB / ">>
                   \o DecimalString(size.vcpus) \o <<" vCPU">>,
     price |-> [monthly |-> Num(size.price_monthly), currency |-> "USD"],
     specs |-> [cpu |-> [cores |-> size.vcpus, type |-> "vCPU"],
                ram |-> DORam(size),
                storage |-> [amount |-> Num(size.disk), unit |-> "GB", type |-> "SSD"],
                bandwidth |-> [amount |-> Num(size.transfer), unit |-> "TB",
                               unlimited |-> FALSE]],
     features |-> <<"SSD Storage", "IPv6", "Monitoring", "Firewalls",
                    "Private Networking", "Load Balancers", "Snapshots", "Backups">>,
     locations |-> Slice(DOAvailableRegions(size, regions), 10),
     uptime |-> [percentage |-> Rat(9999, 100), sla |-> FALSE],
     support |-> "24/7 Community & Ticket Support",
     website |-> "https://digitalocean.com",
     featured |-> DOFeatured(size),
     tags |-> DOTags(size)]

\* A filter that does not look at the memory.
DOKeepAvailable(size) == size.available

DOKeep(size) == size.available /\ size.memory >= 512

\* sizes.filter(...).map(...) of fetchDigitalOceanPlans, on the parsed bodies.
DigitalOceanTransform(data) ==
    LET sizes == IF data.sizes = <<>> THEN <<>> ELSE data.sizes[1]
        regions == IF data.regions = <<>> THEN <<>> ELSE data.regions[1]
        kept == FilterIdx(sizes, {i \in DOMAIN sizes : DOKeep(sizes[i])}, 1)
    IN  IF \E i \in DOMAIN kept : DOThrows(kept[i], regions)
        THEN Thrown
        ELSE Returned([i \in DOMAIN kept |-> DOPlan(kept[i], regions)])

----------------------------------------------------------------------------
(* Hetzner *)

HetznerLocation(i) ==
    [city |-> <<"City ">> \o DecimalString(i), country |-> <<"DE">>]

HetznerLocationList(n) == [i \in 1..n |-> HetznerLocation(i)]

HetznerPrice(gross) == [price_monthly |-> [gross |-> gross]]

HetznerServerType(name, cores, memory, disk, deprecated, architecture, cpu, storage, prices) ==
    [name |-> name, description |-> <<>>, cores |-> cores, memory |-> memory,
     disk |-> disk, deprecated |-> deprecated, architecture |-> architecture,
     cpu_type |-> cpu, storage_type |-> storage, prices |-> prices]

\* Gross monthly prices as the API writes them: decimal numerals in strings.
PriceStrings ==
    { <<"5", ".", "0", "0">>, <<"4", ".", "1", "5">>, <<"4", ".", "5", "0">>,
      <<"4", ".", "5">>, <<"1", "0", ".", "0", "0">> }

PriceLists ==
    UNION {[1..n -> {HetznerPrice(g) : g \in PriceStrings}] : n \in 0..MaxPrices}

HetznerCx11 ==
    HetznerServerType(<<"c", "x", "1", "1">>, 1, 2, 20, FALSE, "x86", "shared", "local",
                      <<HetznerPrice(<<"4", ".", "1", "5">>)>>)

HetznerCax11 ==
    HetznerServerType(<<"c", "a", "x", "1", "1">>, 2, 4, 40, FALSE, "arm64", "shared", "local",
                      <<HetznerPrice(<<"4", ".", "5">>)>>)

\* A server type named as HetznerCx11 but for the letter case.
HetznerCX11 == [HetznerCx11 EXCEPT !.name = <<"C", "X", "1", "1">>]

\* An ARM server type with an empty prices list.
HetznerCax99 ==
    HetznerServerType(<<"c", "a", "x", "9", "9">>, 4, 8, 80, FALSE, "arm64", "shared", "local",
                      <<>>)

\* Sample server types; three of them have an empty prices list.
HetznerServerTypes ==
    { HetznerCx11, HetznerCax99,
      HetznerServerType(<<"C", "X", "2", "1">>, 2, 4, 40, FALSE, "x86", "shared", "local",
                        <<HetznerPrice(<<"5", ".", "0", "0">>),
                          HetznerPrice(<<"4", ".", "5", "0">>)>>),
      HetznerServerType(<<"c", "c", "x", "3", "3">>, 8, 32, 240, FALSE, "x86", "dedicated",
                        "network", <<HetznerPrice(<<"1", "0", ".", "0", "0">>)>>),
      HetznerCax11,
      HetznerServerType(<<"c", "x", "1", "0">>, 1, 1, 10, TRUE, "x86", "shared", "local", <<>>),
      HetznerServerType(<<"c", "x", "9", "9">>, 4, 16, 80, FALSE, "x86", "shared", "local",
                        <<>>) }

\* A reduce that replaces the minimum on <=: of equal prices it keeps the last.
RECURSIVE HetznerReduceLast(_, _, _)
HetznerReduceLast(prices, min, i) ==
    IF i > Len(prices) THEN min
    ELSE LET current == prices[i]
             currentPrice == ParseFloat(current.price_monthly.gross)
             minPrice == ParseFloat(min.price_monthly.gross)
         IN  HetznerReduceLast(prices, IF NumLeq(currentPrice, minPrice) THEN current ELSE min,
                               i + 1)

\* serverType.prices.reduce((min, current) => ... ) without an initial value:
\* the fold starts from the first entry and visits the entries from the second on.
RECURSIVE HetznerReduce(_, _, _)
HetznerReduce(prices, min, i) ==
    IF i > Len(prices) THEN min
    ELSE LET current == prices[i]
             currentPrice == ParseFloat(current.price_monthly.gross)
             minPrice == ParseFloat(min.price_monthly.gross)
         IN  HetznerReduce(prices, IF NumLess(currentPrice, minPrice) THEN current ELSE min,
                           i + 1)

HetznerCheapestPrice(prices) == HetznerReduce(prices, prices[1], 2)

\* reduce of an empty array with no initial value throws a TypeError.
HetznerThrows(serverType) == Len(serverType.prices) = 0

HetznerMonthlyPrice(serverType) ==
    ParseFloat(HetznerCheapestPrice(serverType.prices).price_monthly.gross)

HetznerTags(serverType) ==
    <<"europe", "budget", "high-bandwidth">>
    \o (IF NumLeq(HetznerMonthlyPrice(serverType), Num(5)) THEN <<"ultra-budget">> ELSE <<>>)
    \o (IF serverType.cores >= 4 THEN <<"high-performance">> ELSE <<>>)
    \o (IF serverType.memory >= 16 THEN <<"high-memory">> ELSE <<>>)
    \o (IF serverType.architecture = "arm64" THEN <<"arm", "energy-efficient">> ELSE <<>>)

HetznerLocations(locations) ==
    [i \in DOMAIN locations |-> locations[i].city \o <<", ">> \o locations[i].country]

\* An allow-list match that does not fold the letter case.
HetznerFeaturedExact(serverType) ==
    Includes(<< <<"c", "x", "1", "1">>, <<"c", "x", "2", "1">>, <<"c", "x", "3", "1">> >>,
             serverType.name)

HetznerFeatured(serverType) ==
    Includes(<< <<"c", "x", "1", "1">>, <<"c", "x", "2", "1">>, <<"c", "x", "3", "1">> >>,
             ToLowerCase(serverType.name))

HetznerPlan(serverType, locations) ==
    [id |-> <<"hetzner-">> \o ToLowerCase(serverType.name),
     provider |-> "Hetzner",
     name |-> serverType.name,
     description |-> serverType.description,
     price |-> [monthly |-> HetznerMonthlyPrice(serverType), currency |-> "EUR"],
     specs |-> [cpu |-> [cores |-> serverType.cores,
                         type |-> IF serverType.cpu_type = "shared" THEN "vCPU" ELSE "CPU"],
                ram |-> [amount |-> Num(serverType.memory), unit |-> "GB"],
                storage |-> [amount |-> Num(serverType.disk), unit |-> "GB",
                             type |-> IF serverType.storage_type = "local"
                                      THEN "SSD" ELSE "NVMe"],
                bandwidth |-> [amount |-> Num(20), unit |-> "TB", unlimited |-> FALSE]],
     features |-> <<"SSD Storage", "IPv6", "Private Networking", "Snapshots", "Backups",
                    "Load Balancers", "Floating IPs", "DDoS Protection">>,
     locations |-> HetznerLocations(locations),
     uptime |-> [percentage |-> Rat(999, 10), sla |-> FALSE],
     support |-> "Business Hours Support",
     website |-> "https://hetzner.com",
     featured |-> HetznerFeatured(serverType),
     tags |-> HetznerTags(serverType)]

HetznerKeep(serverType, e) ==
    /\ ~serverType.deprecated
    /\ (serverType.architecture = "x86" \/ e["HETZNER_INCLUDE_ARM"] = <<"true">>)

\* A map stage that drops the server types it cannot price and returns the rest.
HetznerTransformSkipping(data, e) ==
    LET serverTypes == IF data.server_types = <<>> THEN <<>> ELSE data.server_types[1]
        locations == IF data.locations = <<>> THEN <<>> ELSE data.locations[1]
        kept == FilterIdx(serverTypes,
                          {i \in DOMAIN serverTypes :
                              HetznerKeep(serverTypes[i], e) /\ ~HetznerThrows(serverTypes[i])}, 1)
    IN  Returned([i \in DOMAIN kept |-> HetznerPlan(kept[i], locations)])

\* serverTypes.filter(...).filter(...).map(...) of fetchHetznerPlans.
HetznerTransform(data, e) ==
    LET serverTypes == IF data.server_types = <<>> THEN <<>> ELSE data.server_types[1]
        locations == IF data.locations = <<>> THEN <<>> ELSE data.locations[1]
        kept == FilterIdx(serverTypes,
                          {i \in DOMAIN serverTypes : HetznerKeep(serverTypes[i], e)}, 1)
    IN  IF \E i \in DOMAIN kept : HetznerThrows(kept[i])
        THEN Thrown
        ELSE Returned([i \in DOMAIN kept |-> HetznerPlan(kept[i], locations)])

----------------------------------------------------------------------------
(* Linode *)

LinodeRegion(i) ==
    [status |-> IF i = 3 THEN "outage" ELSE "ok", label |-> <<"Linode region ">> \o DecimalString(i)]

LinodeRegionList(n) == [i \in 1..n |-> LinodeRegion(i)]

LinodeType(id, label, class, vcpus, memory, disk, transfer, price) ==
    [id |-> id, label |-> label, class |-> class, vcpus |-> vcpus, memory |-> memory,
     disk |-> disk, transfer |-> transfer, price |-> price]

ClassNanode == <<"n", "a", "n", "o", "d", "e">>
ClassStandard == <<"s", "t", "a", "n", "d", "a", "r", "d">>
ClassDedicated == <<"d", "e", "d", "i", "c", "a", "t", "e", "d">>
ClassHighmem == <<"h", "i", "g", "h", "m", "e", "m">>
ClassPremium == <<"p", "r", "e", "m", "i", "u", "m">>
ClassGpu == <<"g", "p", "u">>
ClassAccelerated == <<"a", "c", "c", "e", "l", "e", "r", "a", "t", "e", "d">>

LinodeNanode ==
    LinodeType(<<"g", "6", "-", "n", "a", "n", "o", "d", "e", "-", "1">>, <<"Nanode 1GB">>,
               ClassNanode, 1, 1024, 25600, 1000, <<[monthly |-> 5]>>)

\* Sample types (price of <<>>: the field is missing).
LinodeTypes ==
    { LinodeNanode,
      LinodeType(<<"g", "6", "-", "s", "t", "a", "n", "d", "a", "r", "d", "-", "2">>,
                 <<"Linode 4GB">>, ClassStandard, 2, 4096, 81920, 4000, <<[monthly |-> 24]>>),
      LinodeType(<<"g", "6", "-", "d", "e", "d", "-", "2">>, <<"Dedicated 4GB">>,
                 ClassDedicated, 2, 4096, 81920, 1024, <<[monthly |-> 36]>>),
      LinodeType(<<"g", "7", "-", "h", "i", "g", "h", "m", "e", "m">>, <<"Linode 24GB">>,
                 ClassHighmem, 2, 24576, 1024, 5000, <<[monthly |-> 60]>>),
      LinodeType(<<"G", "7", "-", "P", "R", "E", "M">>, <<"Premium 4GB">>,
                 ClassPremium, 2, 4096, 81920, 4000, <<[monthly |-> 43]>>),
      LinodeType(<<"g", "6", "-", "s", "m", "a", "l", "l">>, <<"Small 512">>,
                 <<"m", "e", "t", "a", "l">>, 1, 512, 512, 500, <<[monthly |-> 3]>>),
      LinodeType(<<"g", "1", "-", "g", "p", "u">>, <<"GPU">>, ClassGpu, 8, 32768, 655360,
                 16000, <<[monthly |-> 1000]>>),
      LinodeType(<<"g", "1", "-", "a", "c", "c">>, <<"Accelerated">>, ClassAccelerated, 8,
                 16384, 204800, 8000, <<[monthly |-> 400]>>),
      LinodeType(<<"g", "6", "-", "b", "a", "d">>, <<"No price">>, ClassStandard, 1, 2048,
                 51200, 2000, <<>>) }

LinodeAvailableRegions(regions) ==
    LET kept == FilterIdx(regions, {i \in DOMAIN regions : regions[i].status = "ok"}, 1)
    IN  Slice([i \in DOMAIN kept |-> kept[i].label], 10)

LinodeBaseFeatures ==
    <<"SSD Storage", "IPv6", "Private Networking", "DDoS Protection", "Monitoring",
      "Backup Service", "API Access", "Cloud Firewall">>

getClassFeatures(planClass) ==
    CASE planClass = ClassNanode -> LinodeBaseFeatures \o <<"Shared CPU">>
      [] planClass = ClassStandard ->
            LinodeBaseFeatures \o <<"Shared CPU", "Burstable Performance">>
      [] planClass = ClassDedicated ->
            LinodeBaseFeatures \o <<"Dedicated CPU", "Sustained Performance">>
      [] planClass = ClassHighmem ->
            LinodeBaseFeatures
            \o <<"High Memory", "Optimized for Memory-Intensive Applications">>
      [] planClass = ClassPremium ->
            LinodeBaseFeatures
            \o <<"Premium Hardware", "Enhanced Performance", "Advanced Networking">>
      [] OTHER -> LinodeBaseFeatures

getTypeName(planClass) ==
    CASE planClass = ClassNanode -> <<"Nanode">>
      [] planClass = ClassStandard -> <<"Standard">>
      [] planClass = ClassDedicated -> <<"Dedicated CPU">>
      [] planClass = ClassHighmem -> <<"High Memory">>
      [] planClass = ClassPremium -> <<"Premium">>
      [] OTHER -> IF Len(planClass) = 0 THEN <<>>
                  ELSE <<UpperChar(planClass[1])>> \o SubSeq(planClass, 2, Len(planClass))

\* type.price.monthly throws when the price field is missing.
LinodeThrows(type) == type.price = <<>>

LinodeTags(type) ==
    <<"reliable", "developer-friendly">>
    \o (IF type.price[1].monthly <= 10 THEN <<"budget">> ELSE <<>>)
    \o (IF type.class = ClassDedicated THEN <<"high-performance", "dedicated">> ELSE <<>>)
    \o (IF type.class = ClassHighmem THEN <<"high-memory">> ELSE <<>>)
    \o (IF type.class = ClassPremium THEN <<"premium", "enhanced">> ELSE <<>>)
    \o (IF type.class = ClassNanode THEN <<"entry-level">> ELSE <<>>)

\* A unit rule that changes the unit only above 1024.
LinodeScaledAbove(value, small, large) ==
    [amount |-> IF value > 1024 THEN Rat(value, 1024) ELSE Num(value),
     unit |-> IF value > 1024 THEN large ELSE small]

\* The unit rule of the Linode loader: value/1024 in the larger unit from 1024 on.
LinodeScaled(value, small, large) ==
    [amount |-> IF value >= 1024 THEN Rat(value, 1024) ELSE Num(value),
     unit |-> IF value >= 1024 THEN large ELSE small]

LinodeFeatured(type) ==
    Includes(<< <<"g", "6", "-", "n", "a", "n", "o", "d", "e", "-", "1">>,
                <<"g", "6", "-", "s", "t", "a", "n", "d", "a", "r", "d", "-", "1">>,
                <<"g", "6", "-", "s", "t", "a", "n", "d", "a", "r", "d", "-", "2">> >>, type.id)

LinodePlan(type, regions) ==
    [id |-> <<"linode-">> \o type.id,
     provider |-> "Linode",
     name |-> getTypeName(type.class) \o <<" ">> \o type.label,
     price |-> [monthly |-> Num(type.price[1].monthly), currency |-> "USD"],
     specs |-> [cpu |-> [cores |-> type.vcpus,
                         type |-> IF type.class = ClassDedicated THEN "CPU" ELSE "vCPU"],
                ram |-> LinodeScaled(type.memory, "MB", "GB"),
                storage |-> LinodeScaled(type.disk, "MB", "GB") @@ [type |-> "SSD"],
                bandwidth |-> LinodeScaled(type.transfer, "GB", "TB")
                              @@ [unlimited |-> FALSE]],
     features |-> getClassFeatures(type.class),
     locations |-> LinodeAvailableRegions(regions),
     uptime |-> [percentage |-> Rat(999, 10), sla |-> TRUE],
     support |-> "24/7 Support",
     website |-> "https://linode.com",
     featured |-> LinodeFeatured(type),
     tags |-> LinodeTags(type)]

\* A filter that drops the gpu class only.
LinodeKeepNoGpu(type) == type.class # ClassGpu

LinodeKeep(type) == type.class # ClassGpu /\ type.class # ClassAccelerated

\* types.filter(...).map(...) of fetchLinodePlans.
LinodeTransform(data) ==
    LET types == IF data.types = <<>> THEN <<>> ELSE data.types[1]
        regions == IF data.regions = <<>> THEN <<>> ELSE data.regions[1]
        kept == FilterIdx(types, {i \in DOMAIN types : LinodeKeep(types[i])}, 1)
    IN  IF \E i \in DOMAIN kept : LinodeThrows(kept[i])
        THEN Thrown
        ELSE Returned([i \in DOMAIN kept |-> LinodePlan(kept[i], regions)])

----------------------------------------------------------------------------
(* Vultr *)

VultrRegionId(i) == <<"v">> \o DecimalString(i)

VultrRegion(i) ==
    [id |-> VultrRegionId(i), city |-> <<"City ">> \o DecimalString(i), country |-> <<"US">>]

VultrRegionList(n) == [i \in 1..n |-> VultrRegion(i)]

VultrPlan(id, vcpu, ram, disk, bandwidth, cost, type, locations) ==
    [id |-> id, vcpu_count |-> vcpu, ram |-> ram, disk |-> disk, bandwidth |-> bandwidth,
     monthly_cost |-> cost, type |-> type, locations |-> locations]

VultrAllLocations == <<[i \in 1..(MaxRegions + 1) |-> VultrRegionId(i)]>>

VultrVc2 ==
    VultrPlan(<<"v", "c", "2", "-", "1", "c", "-", "1", "g", "b">>, 1, 1024, 25, 1024, 5,
              "vc2", VultrAllLocations)

\* Sample plans (locations of <<>>: the field is missing).
VultrPlans ==
    { VultrPlan(<<"v", "c", "2", "-", "1", "c", "-", "0", ".", "5", "g", "b">>, 1, 512, 10,
                512, 3, "vc2", VultrAllLocations),
      VultrVc2,
      VultrPlan(<<"V", "H", "F", "-", "2", "C">>, 2, 4096, 128, 3072, 24, "vhf",
                << <<VultrRegionId(2), VultrRegionId(1)>> >>),
      VultrPlan(<<"v", "h", "p", "-", "4", "c">>, 4, 8192, 180, 6144, 48, "vhp",
                VultrAllLocations),
      VultrPlan(<<"v", "d", "c", "-", "2", "c">>, 2, 8192, 110, 5120, 60, "vdc",
                << <<VultrRegionId(1)>> >>),
      VultrPlan(<<"v", "b", "m", "-", "4", "c">>, 4, 32768, 240, 5120, 120, "vbm",
                VultrAllLocations),
      VultrPlan(<<"v", "c", "2", "-", "b", "a", "d">>, 1, 2048, 55, 2048, 10, "vc2", <<>>) }

\* regionMap.get(locId) after regionsData.regions.forEach(regionMap.set):
\* the last region listed under an id is the one the map holds.
VultrRegionName(regions, locId) ==
    IF \E i \in DOMAIN regions : regions[i].id = locId
    THEN LET last == CHOOSE i \in DOMAIN regions :
                        /\ regions[i].id = locId
                        /\ \A j \in DOMAIN regions : regions[j].id = locId => j <= i
         IN  regions[last].city \o <<", ">> \o regions[last].country
    ELSE locId

VultrLocations(plan, regions) ==
    LET first == Slice(plan.locations[1], 10)
    IN  [i \in DOMAIN first |-> VultrRegionName(regions, first[i])]

VultrFeatures(plan) ==
    (CASE plan.type = "vc2" -> <<"Cloud Compute", "DDoS Protection", "100% SSD Storage">>
       [] plan.type = "vhf" ->
            <<"High Frequency", "3 GHz+ CPU", "NVMe Storage", "DDoS Protection">>
       [] plan.type = "vhp" ->
            <<"High Performance", "Latest CPU", "NVMe Storage", "DDoS Protection">>
       [] plan.type = "vdc" ->
            <<"Dedicated CPU", "100% Dedicated Resources", "NVMe Storage">>
       [] OTHER -> <<>>)
    \o <<"Full Root Access", "IPv6 Support">>

VultrTags(plan) ==
    <<"global">>
    \o (IF plan.monthly_cost <= 6 THEN <<"budget", "ultra-budget">>
        ELSE IF plan.monthly_cost <= 12 THEN <<"budget">> ELSE <<>>)
    \o (IF plan.type = "vhf" \/ plan.type = "vhp" THEN <<"high-performance">> ELSE <<>>)
    \o (IF plan.type = "vdc" THEN <<"dedicated", "high-performance">> ELSE <<>>)
    \o (IF NumGeq(Rat(plan.ram, 1024), Num(8)) THEN <<"high-memory">> ELSE <<>>)
    \o (IF plan.bandwidth >= 2048 THEN <<"high-bandwidth">> ELSE <<>>)

\* plan.locations.slice throws when the locations field is missing.
VultrThrows(plan) == plan.locations = <<>>

VultrRam(plan) == [amount |-> Rat(plan.ram, 1024), unit |-> "GB"]

VultrFeatured(plan) ==
    Includes(<< <<"v", "c", "2", "-", "1", "c", "-", "1", "g", "b">>,
                <<"v", "c", "2", "-", "1", "c", "-", "2", "g", "b">>,
                <<"v", "c", "2", "-", "2", "c", "-", "4", "g", "b">> >>, plan.id)

VultrRecord(plan, regions) ==
    [id |-> <<"vultr-">> \o plan.id,
     provider |-> "Vultr",
     name |-> ToUpperCase(plan.id),
     price |-> [monthly |-> Num(plan.monthly_cost), currency |-> "USD"],
     specs |-> [cpu |-> [cores |-> plan.vcpu_count,
                         type |-> IF plan.type = "vdc" THEN "CPU" ELSE "vCPU"],
                ram |-> VultrRam(plan),
                storage |-> [amount |-> Num(plan.disk), unit |-> "GB",
                             type |-> IF plan.type \in {"vhf", "vhp", "vdc"}
                                      THEN "NVMe" ELSE "SSD"],
                bandwidth |-> [amount |-> Rat(plan.bandwidth, 1024), unit |-> "TB",
                               unlimited |-> FALSE]],
     features |-> VultrFeatures(plan),
     locations |-> VultrLocations(plan, regions),
     uptime |-> [percentage |-> Rat(9999, 100), sla |-> TRUE],
     support |-> "24/7 Support",
     website |-> "https://www.vultr.com",
     tags |-> VultrTags(plan),
     featured |-> VultrFeatured(plan)]

\* A filter that keeps the plans of every type.
VultrKeepAny(plan) == plan.type \in {"vc2", "vhf", "vhp", "vdc", "vbm"}

VultrKeep(plan) == plan.type \in {"vc2", "vhf", "vhp", "vdc"}

\* The region map, then plansData.plans.filter(...).map(...) of fetchVultrPlans;
\* a body without its regions or plans list throws.
VultrTransform(data) ==
    IF data.regions = <<>> \/ data.plans = <<>> THEN Thrown
    ELSE LET plans == data.plans[1]
             regions == data.regions[1]
             kept == FilterIdx(plans, {i \in DOMAIN plans : VultrKeep(plans[i])}, 1)
         IN  IF \E i \in DOMAIN kept : VultrThrows(kept[i])
             THEN Thrown
             ELSE Returned([i \in DOMAIN kept |-> VultrRecord(kept[i], regions)])

----------------------------------------------------------------------------
(* UpCloud *)

UpCloudZone(i) == [id |-> <<"z">> \o DecimalString(i), description |-> <<"Zone ">> \o DecimalString(i)]

UpCloudZoneList(n) == [i \in 1..n |-> UpCloudZone(i)]

UpCloudPlan(name, cores, memory, traffic, storage, tier) ==
    [name |-> name, core_number |-> cores, memory_amount |-> memory,
     public_traffic_out |-> traffic, storage_size |-> storage, storage_tier |-> tier]

UpCloud1x2 ==
    UpCloudPlan(<<"1", "x", "C", "P", "U", "-", "2", "G", "B">>, 1, 2048, 2048, 50, "maxiops")

\* Sample plans.
UpCloudPlans ==
    { UpCloud1x2,
      UpCloudPlan(<<"1", "x", "C", "P", "U", "-", "5", "1", "2">>, 1, 512, 1024, 10, "standard"),
      UpCloudPlan(<<"4", "x", "C", "P", "U", "-", "8", "G", "B">>, 4, 8192, 5120, 160, "maxiops"),
      UpCloudPlan(<<"N", "O", "P", "R", "I", "C", "E">>, 2, 4096, 4096, 80, "maxiops") }

\* One zone of the price listing: its name and its items, each an item key and
\* the hourly price as the API writes it.
UpCloudPriceZone(name, items) == [name |-> name, items |-> items]

UpCloudItem(planName, price) == [key |-> <<"server_plan_">> \o planName, price |-> price]

UpCloudZonePrices ==
    UpCloudPriceZone("fi-hel1",
        << UpCloudItem(<<"1", "x", "C", "P", "U", "-", "2", "G", "B">>,
                       <<"0", ".", "0", "1", "3">>),
           UpCloudItem(<<"1", "x", "C", "P", "U", "-", "5", "1", "2">>,
                       <<"0", ".", "0", "0", "4", "5">>),
           UpCloudItem(<<"4", "x", "C", "P", "U", "-", "8", "G", "B">>,
                       <<"0", ".", "0", "7", "1", "2">>) >>)

UpCloudOtherZonePrices ==
    UpCloudPriceZone("de-fra1",
        << UpCloudItem(<<"1", "x", "C", "P", "U", "-", "2", "G", "B">>, <<"9", ".", "9">>) >>)

UpCloudBothZones == <<UpCloudZonePrices, UpCloudOtherZonePrices>>

\* Sample price listings: the zones in the order of Object.keys.
UpCloudPricings ==
    { UpCloudBothZones,
      <<UpCloudOtherZonePrices, UpCloudZonePrices>>,
      <<>> }

\* pricingData.prices.zone[firstZone]?.[`server_plan_${plan.name}`]
UpCloudPlanPricing(zonePrices, plan) ==
    IF Len(zonePrices) = 0 THEN <<>>
    ELSE LET items == zonePrices[1].items
             key == <<"server_plan_">> \o plan.name
         IN  IF \E i \in DOMAIN items : items[i].key = key
             THEN <<items[CHOOSE i \in DOMAIN items : items[i].key = key]>>
             ELSE <<>>

\* Math.round(hourlyPrice * 730 * 100) / 100, both products taken in doubles.
UpCloudMonthlyPrice(zonePrices, plan) ==
    LET planPricing == UpCloudPlanPricing(zonePrices, plan)
        hourlyPrice == IF planPricing # <<>> THEN ParseFloat(planPricing[1].price) ELSE Num(0)
    IN  IF IsNaN(hourlyPrice) THEN NaN
        ELSE Rat(DoubleRound(DoubleTimes(DoubleTimes(DoubleOf(hourlyPrice), 730), 100)), 100)

UpCloudTags(plan, monthlyPrice) ==
    <<"europe", "high-performance">>
    \o (IF NumLeq(monthlyPrice, Num(6)) THEN <<"budget", "ultra-budget">>
        ELSE IF NumLeq(monthlyPrice, Num(12)) THEN <<"budget">> ELSE <<>>)
    \o (IF NumGeq(Rat(plan.memory_amount, 1024), Num(8)) THEN <<"high-memory">> ELSE <<>>)
    \o (IF plan.public_traffic_out >= 2048 THEN <<"high-bandwidth">> ELSE <<>>)
    \o (IF plan.storage_tier = "maxiops" THEN <<"nvme-storage">> ELSE <<>>)

UpCloudRam(plan) == [amount |-> Rat(plan.memory_amount, 1024), unit |-> "GB"]

UpCloudFeatured(plan) ==
    Includes(<< <<"1", "x", "C", "P", "U", "-", "2", "G", "B">>,
                <<"2", "x", "C", "P", "U", "-", "4", "G", "B">>,
                <<"4", "x", "C", "P", "U", "-", "8", "G", "B">> >>, plan.name)

UpCloudRecord(plan, zonePrices, zones) ==
    [id |-> <<"upcloud-">> \o ToLowerCase(plan.name),
     provider |-> "UpCloud",
     name |-> plan.name,
     price |-> [monthly |-> UpCloudMonthlyPrice(zonePrices, plan), currency |-> "USD"],
     specs |-> [cpu |-> [cores |-> plan.core_number, type |-> "vCPU"],
                ram |-> UpCloudRam(plan),
                storage |-> [amount |-> Num(plan.storage_size), unit |-> "GB",
                             type |-> IF plan.storage_tier = "maxiops" THEN "NVMe" ELSE "SSD"],
                bandwidth |-> [amount |-> Rat(plan.public_traffic_out, 1024), unit |-> "TB",
                               unlimited |-> FALSE]],
     features |-> <<"MaxIOPS Storage", "Full Root Access", "DDoS Protection",
                    "100% Uptime SLA", "Private Networking", "Firewall", "IPv6 Support">>
                  \o (IF plan.storage_tier = "maxiops" THEN <<"NVMe Storage">> ELSE <<>>),
     locations |-> Slice(zones, 10),
     uptime |-> [percentage |-> Num(100), sla |-> TRUE],
     support |-> "24/7 Support",
     website |-> "https://upcloud.com",
     tags |-> UpCloudTags(plan, UpCloudMonthlyPrice(zonePrices, plan)),
     featured |-> UpCloudFeatured(plan)]

\* zonesData.zones.zone.map(description), then plansData.plans.plan.map(...) of
\* fetchUpCloudPlans; a body without its zones or plans throws, and one without
\* its prices throws at the first plan.
UpCloudTransform(data) ==
    IF data.zones = <<>> \/ data.plans = <<>> THEN Thrown
    ELSE LET plans == data.plans[1]
             zones == [i \in DOMAIN data.zones[1] |-> data.zones[1][i].description]
         IN  IF Len(plans) > 0 /\ data.prices = <<>>
             THEN Thrown
             ELSE Returned([i \in DOMAIN plans |->
                               UpCloudRecord(plans[i], data.prices[1], zones)])

----------------------------------------------------------------------------
(* Scaleway *)

ScalewayServer(name, ncpus, ram, volumes, baremetal, gpu) ==
    [name |-> name,
     server |-> [ncpus |-> ncpus, ram |-> ram, volumes_constraint |-> volumes,
                 baremetal |-> baremetal, gpu |-> gpu]]

\* Sample members of the servers object as the response text lists them: the
\* key and the server type, sizes in MiB; baremetal and gpu are optional,
\* volumes_constraint of <<>> is missing.
ScalewayDev1S ==
    ScalewayServer(<<"D", "E", "V", "1", "-", "S">>, 2, 2048, <<[max_size |-> 20480]>>,
                   <<>>, <<>>)

ScalewayServers ==
    { ScalewayDev1S,
      ScalewayServer(<<"G", "P", "1", "-", "S">>, 8, 32768, <<[max_size |-> 307200]>>,
                     <<FALSE>>, <<0>>),
      ScalewayServer(<<"S", "T", "A", "R", "D", "U", "S", "T">>, 1, 512, <<[max_size |-> 10240]>>,
                     <<FALSE>>, <<>>),
      ScalewayServer(<<"P", "R", "O", "2", "-", "X", "S">>, 4, 16384, <<[max_size |-> 0]>>,
                     <<>>, <<>>),
      ScalewayServer(<<"G", "P", "U", "-", "3", "0", "7", "0">>, 8, 16384,
                     <<[max_size |-> 409600]>>, <<FALSE>>, <<1>>),
      ScalewayServer(<<"M", "E", "T", "A", "L">>, 16, 65536, <<[max_size |-> 1024000]>>,
                     <<TRUE>>, <<>>),
      ScalewayServer(<<"B", "A", "D">>, 2, 4096, <<>>, <<>>, <<>>),
      ScalewayServer(<<"D", "E", "V", "1", "-", "S">>, 4, 2048, <<[max_size |-> 20480]>>,
                     <<>>, <<>>),
      ScalewayServer(<<"1", "0">>, 2, 4096, <<[max_size |-> 40960]>>, <<>>, <<>>),
      ScalewayServer(<<"9">>, 1, 1024, <<[max_size |-> 10240]>>, <<>>, <<>>) }

ScalewayZones == << <<"Paris, France">>, <<"Amsterdam, Netherlands">>, <<"Warsaw, Poland">> >>

\* server.volumes_constraint.max_size throws when volumes_constraint is missing.
ScalewayThrows(entry) == entry.server.volumes_constraint = <<>>

ScalewayRam(server) == [amount |-> Rat(server.ram, 1024), unit |-> "GB"]

\* Math.round((ncpus * 3.5 + ramInGB * 2.5) * 100) / 100
ScalewayMonthlyPrice(server) ==
    LET basePrice == NumAdd(Rat(server.ncpus * 7, 2), NumMul(Rat(server.ram, 1024 * 2), 5))
    IN  NumDiv(MathRound(NumMul(basePrice, 100)), 100)

ScalewayIsNVMe(name) == StrIncludes(name, <<"G", "P", "1">>) \/ StrIncludes(name, <<"P", "R", "O">>)

ScalewayTags(name, server) ==
    <<"europe">>
    \o (IF NumLeq(ScalewayMonthlyPrice(server), Num(6)) THEN <<"budget", "ultra-budget">>
        ELSE IF NumLeq(ScalewayMonthlyPrice(server), Num(12)) THEN <<"budget">> ELSE <<>>)
    \o (IF StrIncludes(name, <<"D", "E", "V", "1">>) \/ StrIncludes(name, <<"P", "L", "A", "Y", "2">>)
        THEN <<"development">> ELSE <<>>)
    \o (IF ScalewayIsNVMe(name) THEN <<"high-performance">> ELSE <<>>)
    \o (IF NumGeq(Rat(server.ram, 1024), Num(8)) THEN <<"high-memory">> ELSE <<>>)

ScalewayFeatured(name) ==
    Includes(<< <<"D", "E", "V", "1", "-", "S">>, <<"D", "E", "V", "1", "-", "M">>,
                <<"G", "P", "1", "-", "S">> >>, name)

ScalewayRecord(entry) ==
    LET name == entry.name
        server == entry.server
    IN  [id |-> <<"scaleway-">> \o ToLowerCase(name),
         provider |-> "Scaleway",
         name |-> name,
         price |-> [monthly |-> ScalewayMonthlyPrice(server), currency |-> "EUR"],
         specs |-> [cpu |-> [cores |-> server.ncpus, type |-> "vCPU"],
                    ram |-> ScalewayRam(server),
                    storage |-> [amount |-> MathRound(Rat(server.volumes_constraint[1].max_size,
                                                          1024)),
                                 unit |-> "GB",
                                 type |-> IF ScalewayIsNVMe(name) THEN "NVMe" ELSE "SSD"],
                    bandwidth |-> [amount |-> Num(100), unit |-> "TB", unlimited |-> TRUE]],
         features |-> <<"Full Root Access", "Fast Local Storage", "Private Networks",
                        "Security Groups", "IPv6 Support", "Block Storage Compatible">>
                      \o (IF ScalewayIsNVMe(name) THEN <<"NVMe Storage">> ELSE <<>>),
         locations |-> Slice(ScalewayZones, 10),
         uptime |-> [percentage |-> Rat(999, 10), sla |-> TRUE],
         support |-> "24/7 Support",
         website |-> "https://www.scaleway.com",
         tags |-> ScalewayTags(name, server),
         featured |-> ScalewayFeatured(name)]

\* A filter that does not look at the gpu count.
ScalewayKeepNoMetal(entry) ==
    entry.server.baremetal = <<>> \/ entry.server.baremetal = <<FALSE>>

\* !server.baremetal && (!server.gpu || server.gpu === 0)
ScalewayKeep(entry) ==
    /\ (entry.server.baremetal = <<>> \/ entry.server.baremetal = <<FALSE>>)
    /\ (entry.server.gpu = <<>> \/ entry.server.gpu = <<0>>)

\* The largest array index, 2^32 - 2, in decimal digits.
MaxArrayIndex == <<"4", "2", "9", "4", "9", "6", "7", "2", "9", "4">>

\* Of two digit strings of the same length, s is the smaller number.
RECURSIVE DigitsBelow(_, _, _)
DigitsBelow(s, t, i) ==
    IF i > Len(s) THEN FALSE
    ELSE IF s[i] = t[i] THEN DigitsBelow(s, t, i + 1)
    ELSE DigitValue(s[i]) < DigitValue(t[i])

\* A property key that is an array index: the canonical decimal string of an
\* integer from 0 to 2^32 - 2.
IsArrayIndex(key) ==
    /\ Len(key) \in 1..Len(MaxArrayIndex)
    /\ \A i \in DOMAIN key : IsDigit(key[i])
    /\ (Len(key) > 1 => key[1] # "0")
    /\ (Len(key) = Len(MaxArrayIndex) => ~DigitsBelow(MaxArrayIndex, key, 1))

\* Of two array indices, s is the smaller.
IndexBelow(s, t) == Len(s) < Len(t) \/ (Len(s) = Len(t) /\ DigitsBelow(s, t, 1))

\* The object response.json() builds from the members of a JSON object: one
\* property per key, at the place of the key's first member and with the value
\* of its last.
JsonParseObject(members) ==
    LET firsts == {i \in DOMAIN members :
                      \A j \in 1..(i - 1) : members[j].name # members[i].name}
        LastOf(i) == CHOOSE j \in DOMAIN members :
                        /\ members[j].name = members[i].name
                        /\ \A k \in DOMAIN members : members[k].name = members[i].name => k <= j
    IN  FilterIdx([i \in DOMAIN members |-> members[LastOf(i)]], firsts, 1)

\* Object.entries: the properties whose key is an array index come first, in
\* ascending order of the index, the others follow in the order of creation.
ObjectEntries(object) ==
    LET indices == {i \in DOMAIN object : IsArrayIndex(object[i].name)}
        Place(i) == 1 + Cardinality({j \in indices :
                                       IndexBelow(object[j].name, object[i].name)})
        ascending == [k \in 1..Cardinality(indices) |->
                         object[CHOOSE i \in indices : Place(i) = k]]
    IN  ascending \o FilterIdx(object, DOMAIN object \ indices, 1)

\* Object.entries(serversData.servers) on the parsed body.
ScalewayEntries(members) == ObjectEntries(JsonParseObject(members))

\* Object.entries(serversData.servers).filter(...).map(...) of fetchScalewayPlans;
\* a body without its servers object throws.
ScalewayTransform(data) ==
    IF data.servers = <<>> THEN Thrown
    ELSE LET servers == ScalewayEntries(data.servers[1])
             kept == FilterIdx(servers, {i \in DOMAIN servers : ScalewayKeep(servers[i])}, 1)
         IN  IF \E i \in DOMAIN kept : ScalewayThrows(kept[i])
             THEN Thrown
             ELSE Returned([i \in DOMAIN kept |-> ScalewayRecord(kept[i])])

----------------------------------------------------------------------------
(* The loaders as asynchronous functions *)

\* The environment variables each loader reads.
VarsOf(a) ==
    CASE a = "digitalocean" -> {"DIGITALOCEAN_API_KEY"}
      [] a = "hetzner" -> {"HETZNER_API_KEY", "HETZNER_INCLUDE_ARM"}
      [] a = "linode" -> {}
      [] a = "vultr" -> {"VULTR_API_KEY"}
      [] a = "upcloud" -> {"UPCLOUD_USERNAME", "UPCLOUD_PASSWORD"}
      [] a = "scaleway" -> {"SCALEWAY_API_KEY"}

\* A credential check that is content with one of the two UpCloud credentials.
HasAnyCredential(a, e) ==
    CASE a = "linode" -> TRUE
      [] a = "upcloud" -> Truthy(e["UPCLOUD_USERNAME"]) \/ Truthy(e["UPCLOUD_PASSWORD"])
      [] a = "digitalocean" -> Truthy(e["DIGITALOCEAN_API_KEY"])
      [] a = "hetzner" -> Truthy(e["HETZNER_API_KEY"])
      [] a = "vultr" -> Truthy(e["VULTR_API_KEY"])
      [] a = "scaleway" -> Truthy(e["SCALEWAY_API_KEY"])

\* The credential check at the top of each loader (Linode has none).
HasCredentials(a, e) ==
    CASE a = "digitalocean" -> Truthy(e["DIGITALOCEAN_API_KEY"])
      [] a = "hetzner" -> Truthy(e["HETZNER_API_KEY"])
      [] a = "linode" -> TRUE
      [] a = "vultr" -> Truthy(e["VULTR_API_KEY"])
      [] a = "upcloud" -> Truthy(e["UPCLOUD_USERNAME"]) /\ Truthy(e["UPCLOUD_PASSWORD"])
      [] a = "scaleway" -> Truthy(e["SCALEWAY_API_KEY"])

\* The requests each loader passes to Promise.all.
NumRequests(a) ==
    CASE a = "upcloud" -> 3
      [] a = "scaleway" -> 1
      [] OTHER -> 2

\* How Promise.all over the fetches can settle: every fetch fulfilled with an ok
\* or a non-2xx response, or some fetch rejected (the others in any state).
NetVectors(a) ==
    {v \in [1..NumRequests(a) -> {"ok", "bad", "rejected", "pending"}] :
        (\E i \in DOMAIN v : v[i] = "pending") => (\E i \in DOMAIN v : v[i] = "rejected")}

\* A status check that looks at the first response only.
StatusCheckFirstOnly(v) == v[1] = "bad"

\* The if (!response.ok) throw ... checks after the fetches.
StatusCheckFails(v) == \E i \in DOMAIN v : v[i] = "bad"

\* A fetch whose rejection goes unnoticed.
FetchNeverRejects(v) == FALSE

\* await Promise.all([fetch, ...]) throws when a fetch rejects.
FetchRejects(v) == \E i \in DOMAIN v : v[i] = "rejected"

\* The status line of a response: 200 when ok, here 503 when not.
ResponseStatus(r) ==
    IF r = "ok" THEN [status |-> 200, statusText |-> "OK"]
    ELSE [status |-> 503, statusText |-> "Service Unavailable"]

ProviderName(a) ==
    CASE a = "digitalocean" -> "DigitalOcean"
      [] a = "hetzner" -> "Hetzner"
      [] a = "linode" -> "Linode"
      [] a = "vultr" -> "Vultr"
      [] a = "upcloud" -> "UpCloud"
      [] a = "scaleway" -> "Scaleway"

\* The resources loader a requests, in the order of its requests.
Resources(a) ==
    CASE a = "digitalocean" -> <<"sizes", "regions">>
      [] a = "hetzner" -> <<"server_types", "locations">>
      [] a = "linode" -> <<"types", "regions">>
      [] a = "vultr" -> <<"plans", "regions">>
      [] a = "upcloud" -> <<"plans", "pricing", "zones">>
      [] a = "scaleway" -> <<"servers">>

\* The message of the Error the status checks throw: DigitalOcean, Hetzner and
\* Linode test both responses at once and throw a fixed text; Vultr, UpCloud and
\* Scaleway test the responses one by one and name the first that is not ok.
StatusError(a, v) ==
    IF a \in {"digitalocean", "hetzner", "linode"}
    THEN <<"Failed to fetch ", ProviderName(a), " data">>
    ELSE LET i == CHOOSE i \in DOMAIN v :
                      v[i] = "bad" /\ \A j \in DOMAIN v : v[j] = "bad" => i <= j
         IN  <<"Failed to fetch ", ProviderName(a), " ", Resources(a)[i], ": ">>
             \o DecimalString(ResponseStatus(v[i]).status)
             \o <<" ", ResponseStatus(v[i]).statusText>>

\* The message of what the fetch stage throws: the rejection of a fetch, which
\* Promise.all passes on before any status is looked at, or the status error.
FetchError(a, v) ==
    IF \E i \in DOMAIN v : v[i] = "rejected" THEN <<"fetch failed">> ELSE StatusError(a, v)

NoBody == [state |-> "none"]
\* Bodies of which the i-th is not JSON.
MalformedAt(i) == [state |-> "malformed", at |-> i]
Parsed(data) == [state |-> "parsed", data |-> data]

\* The filter and map stage of loader a on its parsed bodies.
Transform(a, data, e) ==
    CASE a = "digitalocean" -> DigitalOceanTransform(data)
      [] a = "hetzner" -> HetznerTransform(data, e)
      [] a = "linode" -> LinodeTransform(data)
      [] a = "vultr" -> VultrTransform(data)
      [] a = "upcloud" -> UpCloudTransform(data)
      [] a = "scaleway" -> ScalewayTransform(data)

\* The message of what the parse and transform stage throws: a SyntaxError of
\* response.json(), or a TypeError of the callbacks.
ParseError(b) ==
    IF b.state = "malformed" THEN <<"SyntaxError">> ELSE <<"TypeError">>

\* response.json() rejects on a malformed body; otherwise the listing is
\* filtered and mapped.
ParseAndTransform(a, b, e) ==
    IF b.state = "malformed" THEN Thrown ELSE Transform(a, b.data, e)

\* A loader without its catch block: the exception rejects the promise.
TryRethrow(t) ==
    IF t.thrown
    THEN [outcome |-> "rejected", result |-> <<>>, errors |-> 0]
    ELSE [outcome |-> "resolved", result |-> t.plans, errors |-> 0]

\* try { ... return plans } catch (error) { console.error(...); return [] }
TryCatch(t) ==
    IF t.thrown
    THEN [outcome |-> "resolved", result |-> <<>>, errors |-> 1]
    ELSE [outcome |-> "resolved", result |-> t.plans, errors |-> 0]

\* A loader that awaits its first response before it issues the next request.
OnCallOneByOne(a, e) ==
    IF HasCredentials(a, e)
    THEN [pc |-> "fetching", outcome |-> "pending", warns |-> 0, requests |-> 1]
    ELSE [pc |-> "done", outcome |-> "resolved", warns |-> 1, requests |-> 0]

\* The synchronous head of a loader: the credential check, then the requests.
OnCall(a, e) ==
    IF HasCredentials(a, e)
    THEN [pc |-> "fetching", outcome |-> "pending", warns |-> 0, requests |-> NumRequests(a)]
    ELSE [pc |-> "done", outcome |-> "resolved", warns |-> 1, requests |-> 0]

Rank(a) == CHOOSE i \in DOMAIN Adapters : Adapters[i] = a

\* Loader a settles with t, the value or exception of its try block; the catch
\* block logs the message err of the exception.
Finish(a, t, err) ==
    LET s == TryCatch(t)
    IN  /\ pc' = [pc EXCEPT ![a] = "done"]
        /\ logged' = [logged EXCEPT ![a] = IF s.errors > 0 THEN err ELSE @]
        /\ outcome' = [outcome EXCEPT ![a] = s.outcome]
        /\ result' = [result EXCEPT ![a] = s.result]
        /\ errors' = [errors EXCEPT ![a] = @ + s.errors]
        /\ outOfOrder' = (outOfOrder \/ \E b \in AdapterSet :
                                            Rank(b) < Rank(a) /\ pc[b] \in {"fetching", "parsing"})

\* A loader is called on its own, in an environment that sets no other
\* provider's variables.
Call(a) ==
    /\ lpc = "idle"
    /\ \A b \in AdapterSet : pc[b] = "idle"
    /\ \A v \in EnvVars \ VarsOf(a) : env[v] = <<>>
    /\ LET c == OnCall(a, env)
       IN  /\ pc' = [pc EXCEPT ![a] = c.pc]
           /\ outcome' = [outcome EXCEPT ![a] = c.outcome]
           /\ warns' = [warns EXCEPT ![a] = @ + c.warns]
           /\ requests' = [requests EXCEPT ![a] = @ + c.requests]
    /\ UNCHANGED <<env, net, body, result, errors, lpc, allPlans, outOfOrder, logged, reads>>

----------------------------------------------------------------------------
(* The collection loader *)

\* A concatenation that puts Hetzner before DigitalOcean.
ConcatenateSwapped(res) ==
    res["hetzner"] \o res["digitalocean"] \o res["linode"] \o res["vultr"]
    \o res["upcloud"] \o res["scaleway"]

\* [...digitalOceanPlans, ...hetznerPlans, ...linodePlans, ...vultrPlans,
\*  ...upCloudPlans, ...scalewayPlans]
Concatenate(res) ==
    res["digitalocean"] \o res["hetzner"] \o res["linode"] \o res["vultr"]
    \o res["upcloud"] \o res["scaleway"]

\* vpsPlans.loader up to its await: the six loaders are called in registration
\* order, each running synchronously up to its own first await.
LoaderStart ==
    /\ lpc = "idle"
    /\ \A a \in AdapterSet : pc[a] = "idle"
    /\ lpc' = "awaiting"
    /\ pc' = [a \in AdapterSet |-> OnCall(a, env).pc]
    /\ outcome' = [a \in AdapterSet |-> OnCall(a, env).outcome]
    /\ warns' = [a \in AdapterSet |-> warns[a] + OnCall(a, env).warns]
    /\ requests' = [a \in AdapterSet |-> requests[a] + OnCall(a, env).requests]
    /\ UNCHANGED <<env, net, body, result, errors, allPlans, outOfOrder, logged, reads>>

\* await Promise.all([...]) settles: it rejects as soon as one loader's promise
\* rejects, and is fulfilled once all are; then the results are concatenated.
LoaderSettle ==
    /\ lpc = "awaiting"
    /\ \/ \E a \in AdapterSet : outcome[a] = "rejected"
       \/ \A a \in AdapterSet : outcome[a] = "resolved"
    /\ IF \E a \in AdapterSet : outcome[a] = "rejected"
       THEN lpc' = "rejected" /\ allPlans' = allPlans
       ELSE lpc' = "resolved" /\ allPlans' = Concatenate(result)
    /\ UNCHANGED <<env, pc, net, body, outcome, result, warns, errors, requests, outOfOrder,
                   logged, reads>>

\* The promise of loader a rejects: an exception escapes the loader's own handler.
AdapterRejects(a) ==
    /\ lpc = "awaiting"
    /\ pc[a] \in {"fetching", "parsing"}
    /\ pc' = [pc EXCEPT ![a] = "done"]
    /\ outcome' = [outcome EXCEPT ![a] = "rejected"]
    /\ UNCHANGED <<env, net, body, result, warns, errors, requests, lpc, allPlans, outOfOrder,
                   logged, reads>>

----------------------------------------------------------------------------
(* Upstream inputs *)

SeqsUpTo(S, n) == UNION {[1..k -> S] : k \in 0..n}

DOBody(sizes, n) == Parsed([sizes |-> <<sizes>>, regions |-> <<DORegionList(n)>>])

HetznerBody(serverTypes, n) ==
    Parsed([server_types |-> <<serverTypes>>, locations |-> <<HetznerLocationList(n)>>])

LinodeBody(types, n) == Parsed([types |-> <<types>>, regions |-> <<LinodeRegionList(n)>>])

VultrBody(plans, n) == Parsed([plans |-> <<plans>>, regions |-> <<VultrRegionList(n)>>])

UpCloudBody(plans, prices, n) ==
    Parsed([plans |-> <<plans>>, prices |-> prices, zones |-> <<UpCloudZoneList(n)>>])

ScalewayBody(servers) == Parsed([servers |-> <<servers>>])

\* What the bodies of loader a can parse to when the loader is run on its own:
\* listings of up to MaxPlans sample plans with up to MaxRegions regions, bodies
\* lacking their lists, and a body that is not JSON.
Bodies(a) ==
    {MalformedAt(i) : i \in 1..NumRequests(a)} \cup
    CASE a = "digitalocean" ->
            {DOBody(s, n) : s \in SeqsUpTo(DOSizes, MaxPlans), n \in 0..MaxRegions}
            \cup {Parsed([sizes |-> <<>>, regions |-> <<>>])}
      [] a = "hetzner" ->
            {HetznerBody(s, n) : s \in SeqsUpTo(HetznerServerTypes, MaxPlans),
                                 n \in 0..MaxRegions}
            \cup {HetznerBody(<<[HetznerCx11 EXCEPT !.prices = p]>>, 1) : p \in PriceLists}
            \cup {Parsed([server_types |-> <<>>, locations |-> <<>>])}
      [] a = "linode" ->
            {LinodeBody(s, n) : s \in SeqsUpTo(LinodeTypes, MaxPlans), n \in 0..MaxRegions}
            \cup {Parsed([types |-> <<>>, regions |-> <<>>])}
      [] a = "vultr" ->
            {VultrBody(s, n) : s \in SeqsUpTo(VultrPlans, MaxPlans), n \in 0..MaxRegions}
            \cup {Parsed([plans |-> <<>>, regions |-> <<VultrRegionList(1)>>]),
                  Parsed([plans |-> << <<VultrVc2>> >>, regions |-> <<>>])}
      [] a = "upcloud" ->
            {UpCloudBody(s, <<p>>, n) : s \in SeqsUpTo(UpCloudPlans, MaxPlans),
                                        p \in UpCloudPricings, n \in 0..MaxRegions}
            \cup {UpCloudBody(s, <<>>, 1) : s \in SeqsUpTo(UpCloudPlans, 1)}
            \cup {Parsed([plans |-> <<>>, prices |-> <<UpCloudBothZones>>,
                          zones |-> <<UpCloudZoneList(1)>>]),
                  Parsed([plans |-> << <<UpCloud1x2>> >>, prices |-> <<UpCloudBothZones>>,
                          zones |-> <<>>])}
      [] a = "scaleway" ->
            {ScalewayBody(s) : s \in SeqsUpTo(ScalewayServers, MaxPlans)}
            \cup {Parsed([servers |-> <<>>])}

\* The bodies under the collection loader: one listing per provider.
LoaderBodies(a) ==
    CASE a = "digitalocean" -> {DOBody(<<DOBasic>>, 3)}
      [] a = "hetzner" -> {HetznerBody(<<HetznerCx11, HetznerCax11>>, 2),
                           HetznerBody(<<HetznerCx11, HetznerCX11>>, 2)}
      [] a = "linode" -> {LinodeBody(<<LinodeNanode>>, 2)}
      [] a = "vultr" -> {VultrBody(<<VultrVc2>>, 2)}
      [] a = "upcloud" -> {UpCloudBody(<<UpCloud1x2>>, <<UpCloudBothZones>>, 2)}
      [] a = "scaleway" -> {ScalewayBody(<<ScalewayDev1S>>)}

\* The fetch outcomes under the collection loader: all responses ok, the first
\* response non-2xx, the first fetch rejected.
LoaderNets(a) ==
    { [i \in 1..NumRequests(a) |-> "ok"],
      [i \in 1..NumRequests(a) |-> IF i = 1 THEN "bad" ELSE "ok"],
      [i \in 1..NumRequests(a) |-> IF i = 1 THEN "rejected" ELSE "pending"] }

EnvWith(f) == [v \in EnvVars |-> IF v \in DOMAIN f THEN f[v] ELSE <<>>]

\* Environments of a loader run on its own: the variables of at most one
\* provider are set, each unset, empty, "true" or "TRUE".
AdapterEnvs ==
    {EnvWith(f) : f \in UNION {[VarsOf(a) -> {<<>>, <<"">>, <<"true">>, <<"TRUE">>}] :
                                  a \in AdapterSet}}

\* Environments of the collection loader: every variable unset or "true".
LoaderEnvs == [EnvVars -> {<<>>, <<"true">>}]

----------------------------------------------------------------------------
(* The network answers *)

\* The inputs a loader is given: the full sets when it was called on its own
\* (the collection loader is idle), the small ones under the collection loader.
CurrentNets(a) == IF lpc = "idle" THEN NetVectors(a) ELSE LoaderNets(a)

CurrentBodies(a) == IF lpc = "idle" THEN Bodies(a) ELSE LoaderBodies(a)

\* Vultr and UpCloud await response.json() of one response after the other;
\* DigitalOcean, Hetzner and Linode await one Promise.all of both calls, and
\* Scaleway has one body.
SequentialReads(a) == a \in {"vultr", "upcloud"}

\* The response.json() calls a loader makes right after its status checks.
ReadsAtStart(a) == IF SequentialReads(a) THEN 1 ELSE NumRequests(a)

\* The bodies a read of loader a can find: those of the earlier reads of this
\* call once a read was answered, else any the upstream can send.
DeliveredBodies(a) ==
    IF SequentialReads(a) /\ reads[a] > 1 THEN {body[a]} ELSE CurrentBodies(a)

\* The fetches of loader a settle; the loader checks the statuses and either
\* fails or goes on to read the bodies.
FetchSettle(a) ==
    /\ pc[a] = "fetching"
    /\ \E v \in CurrentNets(a) :
        /\ net' = [net EXCEPT ![a] = v]
        /\ IF FetchRejects(v) \/ StatusCheckFails(v)
           THEN Finish(a, Thrown, FetchError(a, v)) /\ reads' = reads
           ELSE /\ pc' = [pc EXCEPT ![a] = "parsing"]
                /\ reads' = [reads EXCEPT ![a] = ReadsAtStart(a)]
                /\ UNCHANGED <<outcome, result, errors, outOfOrder, logged>>
    /\ UNCHANGED <<env, body, warns, requests, lpc, allPlans>>

\* A body of loader a that is not its last is read: response.json() of the
\* response awaited resolves and the loader calls it on the next response, or
\* it rejects and the loader fails without reading the bodies left.
BodyRead(a) ==
    /\ pc[a] = "parsing"
    /\ reads[a] < NumRequests(a)
    /\ \E b \in DeliveredBodies(a) :
        /\ body' = [body EXCEPT ![a] = b]
        /\ IF b.state = "malformed" /\ b.at = reads[a]
           THEN Finish(a, Thrown, ParseError(b)) /\ reads' = reads
           ELSE /\ reads' = [reads EXCEPT ![a] = @ + 1]
                /\ UNCHANGED <<pc, outcome, result, errors, outOfOrder, logged>>
    /\ UNCHANGED <<env, net, warns, requests, lpc, allPlans>>

\* The last body of loader a is read (all of them, where they are read at
\* once): the bodies parse or fail to parse; the loader filters and maps the
\* listing and its promise settles.
ParseSettle(a) ==
    /\ pc[a] = "parsing"
    /\ reads[a] = NumRequests(a)
    /\ \E b \in DeliveredBodies(a) :
        /\ body' = [body EXCEPT ![a] = b]
        /\ Finish(a, ParseAndTransform(a, b, env), ParseError(b))
    /\ UNCHANGED <<env, net, warns, requests, lpc, allPlans, reads>>

----------------------------------------------------------------------------
(* Specifications *)

InitState ==
    /\ pc = [a \in AdapterSet |-> "idle"]
    /\ net = [a \in AdapterSet |-> <<>>]
    /\ body = [a \in AdapterSet |-> NoBody]
    /\ outcome = [a \in AdapterSet |-> "pending"]
    /\ result = [a \in AdapterSet |-> <<>>]
    /\ warns = [a \in AdapterSet |-> 0]
    /\ errors = [a \in AdapterSet |-> 0]
    /\ requests = [a \in AdapterSet |-> 0]
    /\ lpc = "idle"
    /\ allPlans = <<>>
    /\ outOfOrder = FALSE
    /\ logged = [a \in AdapterSet |-> <<>>]
    /\ reads = [a \in AdapterSet |-> 0]

\* The collection loader with its six loaders.
Init == env \in LoaderEnvs /\ InitState

Next ==
    \/ LoaderStart
    \/ \E a \in AdapterSet : FetchSettle(a)
    \/ \E a \in AdapterSet : BodyRead(a)
    \/ \E a \in AdapterSet : ParseSettle(a)
    \/ LoaderSettle

Spec == Init /\ [][Next]_vars

\* One loader called on its own, as its unit tests call it.
InitAdapter == env \in AdapterEnvs /\ InitState

NextAdapter ==
    \/ \E a \in AdapterSet : Call(a)
    \/ \E a \in AdapterSet : FetchSettle(a)
    \/ \E a \in AdapterSet : BodyRead(a)
    \/ \E a \in AdapterSet : ParseSettle(a)

SpecAdapter == InitAdapter /\ [][NextAdapter]_vars

\* The collection loader with loaders whose promise may reject.
NextBypass ==
    \/ Next
    \/ \E a \in AdapterSet : AdapterRejects(a)

\* Every credential is set, so that every loader goes to the network.
InitBypass ==
    /\ env = [v \in EnvVars |-> <<"true">>]
    /\ InitState

SpecBypass == InitBypass /\ [][NextBypass]_vars

----------------------------------------------------------------------------
(* Properties *)

\* The credential variables of loader a, and whether one of them is unset or empty.
CredentialVars(a) == VarsOf(a) \ {"HETZNER_INCLUDE_ARM"}

CredentialAbsent(a) == \E v \in CredentialVars(a) : env[v] = <<>> \/ env[v] = <<"">>

Fetched(a) == net[a] # <<>>

SomeResponseNotOk(a) == Fetched(a) /\ \E i \in DOMAIN net[a] : net[a][i] = "bad"

SomeFetchRejected(a) == Fetched(a) /\ \E i \in DOMAIN net[a] : net[a][i] = "rejected"

ResolvedEmpty(a) == pc[a] = "done" /\ outcome[a] = "resolved" /\ result[a] = <<>>

\* C1: for every adapter, when the credentials are present and some upstream
\* response is non-2xx, fetchPlans resolves to the empty sequence, does not
\* reject, and logs exactly one error.
C1_NonOkResponseYieldsEmpty ==
    \A a \in AdapterSet :
        (pc[a] = "done" /\ ~CredentialAbsent(a) /\ SomeResponseNotOk(a))
            => ResolvedEmpty(a) /\ errors[a] = 1

\* A loader whose first response was ok and whose second was not has finished.
C1_Witness ==
    \E a \in AdapterSet :
        /\ pc[a] = "done" /\ Fetched(a) /\ Len(net[a]) >= 2
        /\ net[a][1] = "ok" /\ net[a][2] = "bad"
        /\ errors[a] = 1

\* C2: for every adapter that requires credentials, a call with a credential
\* absent (for UpCloud: either of the two) returns the empty sequence, logs
\* exactly one warning and no error, and issues no HTTP request.
C2_MissingCredentialYieldsEmpty ==
    \A a \in AdapterSet \ {"linode"} :
        (pc[a] # "idle" /\ CredentialAbsent(a))
            => ResolvedEmpty(a) /\ warns[a] = 1 /\ errors[a] = 0 /\ requests[a] = 0

\* UpCloud was called with a user name and no password.
C2_Witness ==
    /\ pc["upcloud"] = "done"
    /\ env["UPCLOUD_USERNAME"] = <<"true">> /\ env["UPCLOUD_PASSWORD"] = <<>>
    /\ warns["upcloud"] = 1

\* The try block of loader a failed: a fetch rejected, a body did not parse, or
\* the filter and map stage threw.
TryBlockFailed(a) ==
    \/ SomeFetchRejected(a)
    \/ body[a].state = "malformed"
    \/ body[a].state = "parsed" /\ Transform(a, body[a].data, env).thrown

\* C3: the promise of fetchPlans never rejects; a rejected fetch, a failing body
\* parse and an exception of the filter and map stage are each logged as one
\* error and turned into the empty sequence.
C3_PromiseNeverRejects ==
    \A a \in AdapterSet :
        /\ outcome[a] # "rejected"
        /\ (pc[a] = "done" /\ TryBlockFailed(a)) => ResolvedEmpty(a) /\ errors[a] = 1

\* A loader has finished after one of its fetches rejected.
C3_Witness ==
    \E a \in AdapterSet : pc[a] = "done" /\ SomeFetchRejected(a) /\ outcome[a] = "resolved"

\* The raw plans of the parsed listing of loader a that survive its filter, in
\* the order of the listing (the lists are present).
SurvivingRaw(a) ==
    LET d == body[a].data
    IN  CASE a = "digitalocean" ->
                FilterIdx(d.sizes[1], {i \in DOMAIN d.sizes[1] : DOKeep(d.sizes[1][i])}, 1)
          [] a = "hetzner" ->
                FilterIdx(d.server_types[1],
                          {i \in DOMAIN d.server_types[1] :
                              HetznerKeep(d.server_types[1][i], env)}, 1)
          [] a = "linode" ->
                FilterIdx(d.types[1], {i \in DOMAIN d.types[1] : LinodeKeep(d.types[1][i])}, 1)
          [] a = "vultr" ->
                FilterIdx(d.plans[1], {i \in DOMAIN d.plans[1] : VultrKeep(d.plans[1][i])}, 1)
          [] a = "upcloud" -> d.plans[1]
          [] a = "scaleway" ->
                FilterIdx(ScalewayEntries(d.servers[1]),
                          {i \in DOMAIN ScalewayEntries(d.servers[1]) :
                              ScalewayKeep(ScalewayEntries(d.servers[1])[i])}, 1)

\* The listing of loader a parsed and has its list of plans.
ListingPresent(a) ==
    /\ body[a].state = "parsed"
    /\ CASE a = "digitalocean" -> body[a].data.sizes # <<>>
         [] a = "hetzner" -> body[a].data.server_types # <<>>
         [] a = "linode" -> body[a].data.types # <<>>
         [] a = "vultr" -> body[a].data.plans # <<>>
         [] a = "upcloud" -> body[a].data.plans # <<>>
         [] a = "scaleway" -> body[a].data.servers # <<>>

\* Transforming the surviving raw plan raw of loader a throws.
RawThrows(a, raw) ==
    CASE a = "digitalocean" ->
            body[a].data.regions # <<>> /\ DOThrows(raw, body[a].data.regions[1])
      [] a = "hetzner" -> HetznerThrows(raw)
      [] a = "linode" -> LinodeThrows(raw)
      [] a = "vultr" -> VultrThrows(raw)
      [] a = "upcloud" -> body[a].data.prices = <<>>
      [] a = "scaleway" -> ScalewayThrows(raw)

SomeSurvivorThrows(a) ==
    ListingPresent(a) /\ \E i \in DOMAIN SurvivingRaw(a) : RawThrows(a, SurvivingRaw(a)[i])

\* C4: an adapter's result is all-or-nothing: when transforming one surviving
\* raw plan throws, the adapter returns the empty sequence, none of the
\* well-formed plans of the listing with it.
C4_AllOrNothing ==
    \A a \in AdapterSet :
        (pc[a] = "done" /\ SomeSurvivorThrows(a)) => ResolvedEmpty(a) /\ errors[a] = 1

\* Hetzner listed a well-formed server type beside one with no prices.
C4_Witness ==
    /\ pc["hetzner"] = "done" /\ ListingPresent("hetzner")
    /\ \E i, j \in DOMAIN SurvivingRaw("hetzner") :
          /\ HetznerThrows(SurvivingRaw("hetzner")[i])
          /\ ~HetznerThrows(SurvivingRaw("hetzner")[j])
    /\ result["hetzner"] = <<>>

\* The number of plans in the results of the adapters registered before the k-th.
RECURSIVE Offset(_)
Offset(k) == IF k = 1 THEN 0 ELSE Offset(k - 1) + Len(result[Adapters[k - 1]])

\* C5: the aggregated sequence is the concatenation of the adapters' results in
\* registration order (DigitalOcean, Hetzner, Linode, Vultr, UpCloud, Scaleway),
\* whatever the order in which the adapters finished.
C5_RegistrationOrder ==
    lpc = "resolved" =>
        /\ Len(allPlans) = Offset(Len(Adapters) + 1)
        /\ \A k \in DOMAIN Adapters : \A i \in DOMAIN result[Adapters[k]] :
              allPlans[Offset(k) + i] = result[Adapters[k]][i]

\* The aggregation resolved with plans of all six providers after an adapter
\* finished before one registered ahead of it.
C5_Witness ==
    /\ lpc = "resolved" /\ outOfOrder
    /\ \A a \in AdapterSet : result[a] # <<>>

\* C6: if one adapter's promise rejects while the other adapters succeed, the
\* aggregation still resolves and its result contains the plans of every other
\* adapter.
C6_AggregationIsolatesRejection ==
    \A a \in AdapterSet :
        ( /\ outcome[a] = "rejected"
          /\ \A b \in AdapterSet \ {a} : outcome[b] = "resolved"
          /\ lpc \in {"resolved", "rejected"} )
        => /\ lpc = "resolved"
           /\ \A b \in AdapterSet \ {a} : \A i \in DOMAIN result[b] :
                 \E j \in DOMAIN allPlans : allPlans[j] = result[b][i]

\* Loader a failed: a credential is missing, a response was non-2xx, or a fetch
\* rejected.
ProviderFailing(a) ==
    /\ pc[a] = "done"
    /\ \/ a # "linode" /\ CredentialAbsent(a)
       \/ SomeResponseNotOk(a)
       \/ SomeFetchRejected(a)

\* C7: when every provider is failing (missing credentials, non-2xx responses,
\* rejected fetches, in any combination), the collection loader does not reject
\* and resolves with the empty sequence.
C7_TotalOutageYieldsEmpty ==
    (\A a \in AdapterSet : ProviderFailing(a))
        => /\ lpc # "rejected"
           /\ lpc = "resolved" => allPlans = <<>>

\* The loader resolved after all six providers failed, in each of the three ways.
C7_Witness ==
    /\ lpc = "resolved" /\ allPlans = <<>>
    /\ \A a \in AdapterSet : ProviderFailing(a)
    /\ \E a \in AdapterSet \ {"linode"} : CredentialAbsent(a)
    /\ \E a \in AdapterSet : SomeResponseNotOk(a)
    /\ \E a \in AdapterSet : SomeFetchRejected(a)

\* The memory of a raw plan of loader a in MB (Hetzner lists GB, Scaleway bytes,
\* carried here in MiB).
RawMemoryMB(a, raw) ==
    CASE a = "digitalocean" -> raw.memory
      [] a = "hetzner" -> raw.memory * 1024
      [] a = "linode" -> raw.memory
      [] a = "vultr" -> raw.ram
      [] a = "upcloud" -> raw.memory_amount
      [] a = "scaleway" -> raw.server.ram

\* The plans loader a returned, each with the raw plan it was made from.
ReturnedWithRaw(a) ==
    IF pc[a] = "done" /\ ListingPresent(a) /\ result[a] # <<>>
    THEN {<<result[a][i], SurvivingRaw(a)[i]>> : i \in DOMAIN result[a]}
    ELSE {}

\* C8: for every plan an adapter returns, specs.ram.unit is MB or GB, it is GB
\* if and only if the raw memory in MB is at least 1024, and the amount is
\* raw/1024 when the unit is GB and the raw value in MB otherwise.
C8_RamUnitAsStated ==
    \A a \in AdapterSet : \A pr \in ReturnedWithRaw(a) :
        LET ram == pr[1].specs.ram
            raw == RawMemoryMB(a, pr[2])
        IN  /\ ram.unit \in {"MB", "GB"}
            /\ ram.unit = "GB" <=> raw >= 1024
            /\ ram.amount = IF ram.unit = "GB" THEN Rat(raw, 1024) ELSE Num(raw)

\* C9: every plan an adapter returns has at most 10 locations, however many
\* regions, locations or zones the provider lists.
C9_AtMostTenLocations ==
    \A a \in AdapterSet : \A i \in DOMAIN result[a] : Len(result[a][i].locations) <= 10

\* The parsed gross monthly price of the k-th entry of a prices list.
GrossOf(prices, k) == ParseFloat(prices[k].price_monthly.gross)

\* The first entry of a prices list whose parsed price is the minimum.
FirstMinimum(prices) ==
    CHOOSE k \in DOMAIN prices :
        /\ \A j \in DOMAIN prices : NumLeq(GrossOf(prices, k), GrossOf(prices, j))
        /\ \A j \in 1..(k - 1) : NumLess(GrossOf(prices, k), GrossOf(prices, j))

\* C10: for every plan the Hetzner adapter returns, price.monthly is the
\* minimum, by numeric comparison of the parsed gross monthly prices, over the
\* entries of the server type's prices list, and of several entries with the
\* minimum the first listed is the one selected.
C10_HetznerCheapestPrice ==
    \A pr \in ReturnedWithRaw("hetzner") :
        LET prices == pr[2].prices
        IN  /\ pr[1].price.monthly = GrossOf(prices, FirstMinimum(prices))
            /\ Len(prices) > 0 /\ ~IsNaN(pr[1].price.monthly)
            /\ \A j \in DOMAIN prices : NumLeq(pr[1].price.monthly, GrossOf(prices, j))
            /\ HetznerCheapestPrice(prices) = prices[FirstMinimum(prices)]

\* Hetzner returned a plan whose minimum is shared by two entries written
\* differently, neither of them the first of the list.
C10_Witness ==
    \E pr \in ReturnedWithRaw("hetzner") :
        LET prices == pr[2].prices
        IN  /\ FirstMinimum(prices) > 1
            /\ \E j \in DOMAIN prices :
                  /\ j > FirstMinimum(prices)
                  /\ prices[j] # prices[FirstMinimum(prices)]
                  /\ GrossOf(prices, j) = GrossOf(prices, FirstMinimum(prices))

----------------------------------------------------------------------------
(* The plan schema *)

\* A string written as fragments is empty when every fragment is.
StrEmpty(s) == \A i \in DOMAIN s : s[i] = ""

\* The website strings the loaders write; z.string().url() accepts each.
IsUrl(s) ==
    s \in {"https://digitalocean.com", "https://hetzner.com", "https://linode.com",
           "https://www.vultr.com", "https://upcloud.com", "https://www.scaleway.com"}

\* z.number().positive(): a number, not NaN, above zero.
IsPositive(x) == NumLess(Num(0), x)

\* vpsSchema: the paths of the fields of plan that fail validation.
vpsSchema(plan) ==
    (IF StrEmpty(plan.id) THEN {"id"} ELSE {})
    \cup (IF plan.provider = "" THEN {"provider"} ELSE {})
    \cup (IF StrEmpty(plan.name) THEN {"name"} ELSE {})
    \cup (IF IsPositive(plan.price.monthly) THEN {} ELSE {"price.monthly"})
    \cup (IF plan.price.currency \in {"USD", "EUR", "GBP"} THEN {} ELSE {"price.currency"})
    \cup (IF plan.specs.cpu.cores > 0 THEN {} ELSE {"specs.cpu.cores"})
    \cup (IF plan.specs.cpu.type \in {"vCPU", "CPU", "Core"} THEN {} ELSE {"specs.cpu.type"})
    \cup (IF IsPositive(plan.specs.ram.amount) THEN {} ELSE {"specs.ram.amount"})
    \cup (IF plan.specs.ram.unit \in {"MB", "GB", "TB"} THEN {} ELSE {"specs.ram.unit"})
    \cup (IF IsPositive(plan.specs.storage.amount) THEN {} ELSE {"specs.storage.amount"})
    \cup (IF plan.specs.storage.unit \in {"GB", "TB"} THEN {} ELSE {"specs.storage.unit"})
    \cup (IF plan.specs.storage.type \in {"SSD", "NVMe", "HDD", "EBS"}
          THEN {} ELSE {"specs.storage.type"})
    \cup (IF NumLeq(Num(0), plan.specs.bandwidth.amount)
          THEN {} ELSE {"specs.bandwidth.amount"})
    \cup (IF plan.specs.bandwidth.unit \in {"GB", "TB"} THEN {} ELSE {"specs.bandwidth.unit"})
    \cup (IF Len(plan.features) >= 1 THEN {} ELSE {"features"})
    \cup (IF Len(plan.locations) >= 1 THEN {} ELSE {"locations"})
    \cup (IF /\ NumLeq(Num(0), plan.uptime.percentage)
             /\ NumLeq(plan.uptime.percentage, Num(100))
          THEN {} ELSE {"uptime.percentage"})
    \cup (IF plan.support = "" THEN {"support"} ELSE {})
    \cup (IF IsUrl(plan.website) THEN {} ELSE {"website"})

\* C11: every plan record an adapter returns validates against the plan schema
\* with zero errors.
C11_EveryPlanValidates ==
    \A a \in AdapterSet : \A i \in DOMAIN result[a] : vpsSchema(result[a][i]) = {}

\* The raw listing of loader a, and the identifier the provider gives a raw plan.
RawListing(a) ==
    LET d == body[a].data
    IN  CASE a = "digitalocean" -> d.sizes[1]
          [] a = "hetzner" -> d.server_types[1]
          [] a = "linode" -> d.types[1]
          [] a = "vultr" -> d.plans[1]
          [] a = "upcloud" -> d.plans[1]
          [] a = "scaleway" -> d.servers[1]

RawIdentifier(a, raw) ==
    CASE a = "digitalocean" -> raw.slug
      [] a = "hetzner" -> raw.name
      [] a = "linode" -> raw.id
      [] a = "vultr" -> raw.id
      [] a = "upcloud" -> raw.name
      [] a = "scaleway" -> raw.name

\* No two plans of the listing of loader a carry the same identifier;
\* identifiers that differ in letter case are different identifiers.
IdentifiersUnique(a) ==
    ListingPresent(a) =>
        \A i, j \in DOMAIN RawListing(a) :
            i # j => RawIdentifier(a, RawListing(a)[i]) # RawIdentifier(a, RawListing(a)[j])

\* C13: when every provider's plan identifiers are unique within that provider,
\* also those that differ only in letter case, no two plans of the aggregated
\* collection have the same id.
C13_IdsUniqueInCollection ==
    (lpc = "resolved" /\ \A a \in AdapterSet : IdentifiersUnique(a))
        => \A i, j \in DOMAIN allPlans : i # j => allPlans[i].id # allPlans[j].id

\* The provider slug and the hyphen every id starts with.
IdPrefix(a) ==
    CASE a = "digitalocean" -> "digitalocean-"
      [] a = "hetzner" -> "hetzner-"
      [] a = "linode" -> "linode-"
      [] a = "vultr" -> "vultr-"
      [] a = "upcloud" -> "upcloud-"
      [] a = "scaleway" -> "scaleway-"

\* C14: the id of every returned plan is the provider slug, a hyphen and the
\* lower-cased provider plan identifier, so that no upper-case letter follows
\* the prefix, whatever the case of the identifier the provider returns.
C14_IdIsLowerCased ==
    \A a \in AdapterSet : \A pr \in ReturnedWithRaw(a) :
        /\ pr[1].id = <<IdPrefix(a)>> \o ToLowerCase(RawIdentifier(a, pr[2]))
        /\ \A k \in 2..Len(pr[1].id) : pr[1].id[k] = LowerChar(pr[1].id[k])

\* Every numeric field of the raw plan raw of loader a is positive.
RawPositive(a, raw) ==
    CASE a = "digitalocean" ->
            raw.memory > 0 /\ raw.vcpus > 0 /\ raw.disk > 0 /\ raw.price_monthly > 0
      [] a = "hetzner" -> raw.cores > 0 /\ raw.memory > 0 /\ raw.disk > 0
      [] a = "linode" ->
            /\ raw.vcpus > 0 /\ raw.memory > 0 /\ raw.disk > 0
            /\ \A i \in DOMAIN raw.price : raw.price[i].monthly > 0
      [] a = "vultr" ->
            raw.vcpu_count > 0 /\ raw.ram > 0 /\ raw.disk > 0 /\ raw.monthly_cost > 0
      [] a = "upcloud" -> raw.core_number > 0 /\ raw.memory_amount > 0 /\ raw.storage_size > 0
      [] a = "scaleway" ->
            /\ raw.server.ncpus > 0 /\ raw.server.ram > 0
            /\ \A i \in DOMAIN raw.server.volumes_constraint :
                  raw.server.volumes_constraint[i].max_size > 0

\* The amounts of a returned plan are strictly positive.
AmountsPositive(plan) ==
    /\ IsPositive(plan.price.monthly)
    /\ plan.specs.cpu.cores > 0
    /\ IsPositive(plan.specs.ram.amount)
    /\ IsPositive(plan.specs.storage.amount)

\* C15: a returned plan whose upstream record has positive numeric fields has a
\* strictly positive monthly price, core count, RAM amount and storage amount,
\* also an UpCloud plan without a price entry in the first pricing zone.
C15_AmountsPositive ==
    \A a \in AdapterSet : \A pr \in ReturnedWithRaw(a) :
        RawPositive(a, pr[2]) => AmountsPositive(pr[1])

\* The first response of loader a that was not ok.
FirstNotOk(a) ==
    CHOOSE i \in DOMAIN net[a] :
        net[a][i] = "bad" /\ \A j \in DOMAIN net[a] : net[a][j] = "bad" => i <= j

\* C16: when a response is not successful, the error the adapter raises and
\* logs names the resource that failed and carries the status code or the
\* status text of that response.
C16_ErrorNamesResourceAndStatus ==
    \A a \in AdapterSet :
        (pc[a] = "done" /\ SomeResponseNotOk(a) /\ ~SomeFetchRejected(a))
            => /\ Includes(logged[a], Resources(a)[FirstNotOk(a)])
               /\ \/ StrIncludes(logged[a],
                                 DecimalString(ResponseStatus(net[a][FirstNotOk(a)]).status))
                  \/ Includes(logged[a], ResponseStatus(net[a][FirstNotOk(a)]).statusText)

\* The filter of loader a keeps the raw plan raw.
Keeps(a, raw) ==
    CASE a = "digitalocean" -> DOKeep(raw)
      [] a = "hetzner" -> HetznerKeep(raw, env)
      [] a = "linode" -> LinodeKeep(raw)
      [] a = "vultr" -> VultrKeep(raw)
      [] a = "upcloud" -> TRUE
      [] a = "scaleway" -> ScalewayKeep(raw)

\* The id loader a gives the raw plan raw: Hetzner, UpCloud and Scaleway
\* lower-case the identifier, DigitalOcean, Linode and Vultr copy it.
PlanId(a, raw) ==
    <<IdPrefix(a)>> \o (IF a \in {"hetzner", "upcloud", "scaleway"}
                        THEN ToLowerCase(RawIdentifier(a, raw))
                        ELSE RawIdentifier(a, raw))

\* The plans of the listing of loader a in the order of the response (a server
\* type of Scaleway stands where its key is listed first), the positions that
\* survive the filter of the loader, and the k-th of them in listing order.
ListedPlans(a) ==
    IF a = "scaleway" THEN JsonParseObject(RawListing(a)) ELSE RawListing(a)

KeptPositions(a) == {i \in DOMAIN ListedPlans(a) : Keeps(a, ListedPlans(a)[i])}

KthKept(a, k) ==
    CHOOSE i \in KeptPositions(a) : Cardinality({j \in KeptPositions(a) : j <= i}) = k

\* Loader a got its listing and its try block returned, nothing thrown.
ReturnedListing(a) == pc[a] = "done" /\ ListingPresent(a) /\ errors[a] = 0

\* C17: the sequence an adapter returns holds exactly one record per raw plan
\* that survives the filter, in the order of the upstream listing.
C17_ListingOrderPreserved ==
    \A a \in AdapterSet :
        ReturnedListing(a) =>
            /\ Len(result[a]) = Cardinality(KeptPositions(a))
            /\ \A k \in DOMAIN result[a] :
                  result[a][k].id = PlanId(a, ListedPlans(a)[KthKept(a, k)])

\* s is a subsequence of t.
RECURSIVE IsSubsequence(_, _)
IsSubsequence(s, t) ==
    IF s = <<>> THEN TRUE
    ELSE IF t = <<>> THEN FALSE
    ELSE IF Head(s) = Head(t) THEN IsSubsequence(Tail(s), Tail(t))
    ELSE IsSubsequence(s, Tail(t))

\* What fetchHetznerPlans returns for the parsed bodies data when
\* HETZNER_INCLUDE_ARM is flag, the rest of the environment as it is.
HetznerResult(data, flag) ==
    TryCatch(HetznerTransform(data, [env EXCEPT !["HETZNER_INCLUDE_ARM"] = flag])).result

\* The ids of the server types of the listing that are not deprecated and are
\* x86 or, with HETZNER_INCLUDE_ARM exactly "true", of any architecture.
HetznerExpectedIds ==
    LET Wanted(st) == /\ ~st.deprecated
                      /\ (st.architecture = "x86" \/ env["HETZNER_INCLUDE_ARM"] = <<"true">>)
        wanted == SelectSeq(RawListing("hetzner"), Wanted)
    IN  [k \in DOMAIN wanted |-> PlanId("hetzner", wanted[k])]

\* The Hetzner adapter returned exactly the wanted server types.
HetznerReturnsWanted ==
    ReturnedListing("hetzner") =>
        [k \in DOMAIN result["hetzner"] |-> result["hetzner"][k].id] = HetznerExpectedIds

\* C18: the Hetzner adapter returns a server type if and only if it is not
\* deprecated and is x86 or HETZNER_INCLUDE_ARM is exactly "true", and the
\* result with the flag unset is a subsequence of the result with the flag
\* "true" for the same upstream data.
C18_HetznerArmFlagAsStated ==
    /\ HetznerReturnsWanted
    /\ (pc["hetzner"] = "done" /\ ListingPresent("hetzner"))
        => IsSubsequence(HetznerResult(body["hetzner"].data, <<>>),
                         HetznerResult(body["hetzner"].data, <<"true">>))

\* The ids of the sizes of the listing that are available and have at least
\* 512 MB of memory.
DOExpectedIds ==
    LET Wanted(size) == size.available /\ size.memory >= 512
        wanted == SelectSeq(RawListing("digitalocean"), Wanted)
    IN  [k \in DOMAIN wanted |-> PlanId("digitalocean", wanted[k])]

\* A RAM amount with its unit, converted to MB.
RamInMB(ram) == IF ram.unit = "GB" THEN NumMul(ram.amount, 1024) ELSE ram.amount

\* C19: the DigitalOcean adapter returns a size if and only if it is available
\* and its memory is at least 512 MB, and every returned plan has a RAM of at
\* least 512 MB once amount and unit are converted back to MB.
C19_DigitalOceanFilter ==
    ReturnedListing("digitalocean") =>
        /\ [k \in DOMAIN result["digitalocean"] |-> result["digitalocean"][k].id] = DOExpectedIds
        /\ \A k \in DOMAIN result["digitalocean"] :
              /\ result["digitalocean"][k].specs.ram.unit \in {"MB", "GB"}
              /\ NumGeq(RamInMB(result["digitalocean"][k].specs.ram), Num(512))

\* The DigitalOcean adapter returned the 512 MB size of a listing whose other
\* size has less memory.
C19_Witness ==
    /\ ReturnedListing("digitalocean")
    /\ Len(RawListing("digitalocean")) = 2
    /\ \E i \in DOMAIN RawListing("digitalocean") :
          RawListing("digitalocean")[i].available /\ RawListing("digitalocean")[i].memory < 512
    /\ Len(result["digitalocean"]) = 1
    /\ result["digitalocean"][1].specs.ram = [amount |-> Num(512), unit |-> "MB"]

\* The names of the regions of the listing that are available and named in the
\* regions of size, in listing order, the first ten of them.
DOExpectedLocations(size, regions) ==
    LET Wanted(region) ==
            /\ region.available
            /\ size.regions # <<>>
            /\ \E j \in DOMAIN size.regions[1] : size.regions[1][j] = region.slug
        wanted == SelectSeq(regions, Wanted)
    IN  [i \in 1..(IF Len(wanted) < 10 THEN Len(wanted) ELSE 10) |-> wanted[i].name]

\* C20: the locations of every DigitalOcean plan are the names of the regions
\* that are available in the regions listing and named in the size's own
\* regions, in the order of the listing, truncated to the first ten.
C20_DigitalOceanLocations ==
    \A pr \in ReturnedWithRaw("digitalocean") :
        pr[1].locations =
            DOExpectedLocations(pr[2], IF body["digitalocean"].data.regions = <<>> THEN <<>>
                                       ELSE body["digitalocean"].data.regions[1])

\* A DigitalOcean plan carries ten locations of a listing of twelve regions,
\* eleven of them available and named by the size.
C20_Witness ==
    \E pr \in ReturnedWithRaw("digitalocean") :
        /\ Len(body["digitalocean"].data.regions[1]) = 12
        /\ Len(pr[1].locations) = 10
        /\ pr[2].regions = DOAllSlugs

\* The display names the claim gives the five named Linode classes.
LinodeDisplayName(class) ==
    CASE class = ClassNanode -> <<"Nanode">>
      [] class = ClassStandard -> <<"Standard">>
      [] class = ClassDedicated -> <<"Dedicated CPU">>
      [] class = ClassHighmem -> <<"High Memory">>
      [] class = ClassPremium -> <<"Premium">>

LinodeNamedClasses == {ClassNanode, ClassStandard, ClassDedicated, ClassHighmem, ClassPremium}

\* C21: the name of every plan the Linode adapter returns is the display name
\* of its class: Nanode, Standard, Dedicated CPU, High Memory or Premium.
C21_LinodeNameIsClassName ==
    \A pr \in ReturnedWithRaw("linode") :
        pr[2].class \in LinodeNamedClasses => pr[1].name = LinodeDisplayName(pr[2].class)

\* C22: for every plan the Linode adapter returns, specs.storage.unit is GB or
\* TB and specs.storage.amount is positive, whatever the upstream disk size,
\* disk sizes below 1024 included.
C22_LinodeStorageUnit ==
    \A pr \in ReturnedWithRaw("linode") :
        pr[2].disk > 0 =>
            /\ pr[1].specs.storage.unit \in {"GB", "TB"}
            /\ IsPositive(pr[1].specs.storage.amount)

\* The ids of the types of the listing whose class is neither gpu nor accelerated.
LinodeExpectedIds ==
    LET Wanted(type) == type.class \notin {ClassGpu, ClassAccelerated}
        wanted == SelectSeq(RawListing("linode"), Wanted)
    IN  [k \in DOMAIN wanted |-> PlanId("linode", wanted[k])]

\* C23: the Linode adapter never returns a type whose class is gpu or
\* accelerated, and returns every type of any other class.
C23_LinodeFilter ==
    ReturnedListing("linode") =>
        [k \in DOMAIN result["linode"] |-> result["linode"][k].id] = LinodeExpectedIds

\* The Linode adapter returned one type of a listing of two, the other being of
\* class accelerated.
C23_Witness ==
    /\ ReturnedListing("linode")
    /\ Len(RawListing("linode")) = 2
    /\ \E i \in DOMAIN RawListing("linode") : RawListing("linode")[i].class = ClassAccelerated
    /\ Len(result["linode"]) = 1

\* C24: for every Linode plan the bandwidth is in TB with amount transfer/1024
\* if and only if the raw transfer (GB) is at least 1024, and otherwise in GB
\* with the raw amount; the disk (MB) follows the same rule with GB as the
\* larger unit.
C24_LinodeUnitThreshold ==
    \A pr \in ReturnedWithRaw("linode") :
        LET bandwidth == pr[1].specs.bandwidth
            storage == pr[1].specs.storage
        IN  /\ bandwidth.unit \in {"GB", "TB"}
            /\ bandwidth.unit = "TB" <=> pr[2].transfer >= 1024
            /\ bandwidth.amount = IF pr[2].transfer >= 1024 THEN Rat(pr[2].transfer, 1024)
                                  ELSE Num(pr[2].transfer)
            /\ storage.unit \in {"MB", "GB"}
            /\ storage.unit = "GB" <=> pr[2].disk >= 1024
            /\ storage.amount = IF pr[2].disk >= 1024 THEN Rat(pr[2].disk, 1024)
                                ELSE Num(pr[2].disk)

\* A Linode plan with a transfer of exactly 1024 GB is reported with 1 TB.
C24_Witness ==
    \E pr \in ReturnedWithRaw("linode") :
        /\ pr[2].transfer = 1024
        /\ pr[1].specs.bandwidth.unit = "TB" /\ pr[1].specs.bandwidth.amount = Num(1)

\* The first zone of the price listing has a numeric price for the UpCloud plan.
UpCloudHourlyPrice(plan) ==
    LET pricing == UpCloudPlanPricing(body["upcloud"].data.prices[1], plan)
    IN  IF pricing = <<>> THEN NaN ELSE ParseFloat(pricing[1].price)

\* C25: the monthly price of every UpCloud plan is the hourly price of
\* server_plan_<name> in the first zone of the price listing, multiplied by 730
\* and rounded to two decimal places.
C25_UpCloudMonthlyPrice ==
    \A pr \in ReturnedWithRaw("upcloud") :
        ~IsNaN(UpCloudHourlyPrice(pr[2])) =>
            pr[1].price.monthly
                = NumDiv(MathRound(NumMul(UpCloudHourlyPrice(pr[2]), 73000)), 100)

\* The identifiers each loader marks as featured.
FeaturedIdentifiers(a) ==
    CASE a = "digitalocean" ->
            { <<"s", "-", "1", "v", "c", "p", "u", "-", "1", "g", "b">>,
              <<"s", "-", "2", "v", "c", "p", "u", "-", "2", "g", "b">> }
      [] a = "hetzner" ->
            { <<"c", "x", "1", "1">>, <<"c", "x", "2", "1">>, <<"c", "x", "3", "1">> }
      [] a = "linode" ->
            { <<"g", "6", "-", "n", "a", "n", "o", "d", "e", "-", "1">>,
              <<"g", "6", "-", "s", "t", "a", "n", "d", "a", "r", "d", "-", "1">>,
              <<"g", "6", "-", "s", "t", "a", "n", "d", "a", "r", "d", "-", "2">> }
      [] a = "vultr" ->
            { <<"v", "c", "2", "-", "1", "c", "-", "1", "g", "b">>,
              <<"v", "c", "2", "-", "1", "c", "-", "2", "g", "b">>,
              <<"v", "c", "2", "-", "2", "c", "-", "4", "g", "b">> }
      [] a = "upcloud" ->
            { <<"1", "x", "C", "P", "U", "-", "2", "G", "B">>,
              <<"2", "x", "C", "P", "U", "-", "4", "G", "B">>,
              <<"4", "x", "C", "P", "U", "-", "8", "G", "B">> }
      [] a = "scaleway" ->
            { <<"D", "E", "V", "1", "-", "S">>, <<"D", "E", "V", "1", "-", "M">>,
              <<"G", "P", "1", "-", "S">> }

\* C26: for every adapter, featured is true exactly for the plans whose
\* identifier is in the adapter's allow-list; for Hetzner the letter case of
\* the identifier is ignored.
C26_FeaturedAllowList ==
    \A a \in AdapterSet : \A pr \in ReturnedWithRaw(a) :
        pr[1].featured <=>
            (IF a = "hetzner" THEN ToLowerCase(RawIdentifier(a, pr[2]))
             ELSE RawIdentifier(a, pr[2])) \in FeaturedIdentifiers(a)

\* The Hetzner adapter returned the server type CX21 as featured, together with
\* a server type that is not featured.
C26_Witness ==
    \E pr, other \in ReturnedWithRaw("hetzner") :
        /\ pr[2].name = <<"C", "X", "2", "1">> /\ pr[1].featured
        /\ ~other[1].featured

\* The ids of the plans of the listing whose type is vc2, vhf, vhp or vdc.
VultrExpectedIds ==
    LET Wanted(plan) == plan.type \in {"vc2", "vhf", "vhp", "vdc"}
        wanted == SelectSeq(RawListing("vultr"), Wanted)
    IN  [k \in DOMAIN wanted |-> PlanId("vultr", wanted[k])]

\* C27: the Vultr adapter returns a plan if and only if its type is one of
\* vc2, vhf, vhp, vdc; a plan of another type, such as vbm, is never returned.
C27_VultrFilter ==
    ReturnedListing("vultr") =>
        /\ [k \in DOMAIN result["vultr"] |-> result["vultr"][k].id] = VultrExpectedIds
        /\ \A pr \in ReturnedWithRaw("vultr") : pr[2].type # "vbm"

\* The Vultr adapter returned one plan of a listing of two, the other being of
\* type vbm.
C27_Witness ==
    /\ ReturnedListing("vultr")
    /\ Len(RawListing("vultr")) = 2
    /\ \E i \in DOMAIN RawListing("vultr") : RawListing("vultr")[i].type = "vbm"
    /\ Len(result["vultr"]) = 1

\* The server types of the servers object: of the members of the response that
\* carry the same key, the last one is the value of the key.
ScalewayServerTypes ==
    LET listing == RawListing("scaleway")
    IN  {listing[i] : i \in {i \in DOMAIN listing :
                                \A j \in DOMAIN listing :
                                    listing[j].name = listing[i].name => j <= i}}

\* The ids of the server types that are not bare-metal and whose gpu count is
\* absent or zero.
ScalewayExpectedIds ==
    {PlanId("scaleway", entry) :
        entry \in {e \in ScalewayServerTypes :
                      /\ e.server.baremetal # <<TRUE>>
                      /\ (e.server.gpu = <<>> \/ e.server.gpu[1] = 0)}}

\* C28: the Scaleway adapter returns a server type if and only if it is not
\* bare-metal and its gpu count is absent or zero, and returns it once.
C28_ScalewayFilter ==
    ReturnedListing("scaleway") =>
        /\ {result["scaleway"][k].id : k \in DOMAIN result["scaleway"]} = ScalewayExpectedIds
        /\ Len(result["scaleway"]) = Cardinality(ScalewayExpectedIds)

\* The Scaleway adapter returned one server type of a listing of two, the other
\* having a gpu.
C28_Witness ==
    /\ ReturnedListing("scaleway")
    /\ Len(RawListing("scaleway")) = 2
    /\ \E i \in DOMAIN RawListing("scaleway") :
          /\ RawListing("scaleway")[i].server.gpu # <<>>
          /\ RawListing("scaleway")[i].server.gpu[1] > 0
    /\ Len(result["scaleway"]) = 1


(***************************************************************************)
(* DigitalOcean tags                                                       *)
(***************************************************************************)

DOBaseTags == <<"cloud", "scalable", "developer-friendly", "popular">>

DOExtraTags == <<"budget", "high-performance", "high-memory">>

\* The condition under which a size carries an extra tag.
DOTagWanted(tag, size) ==
    CASE tag = "budget" -> size.price_monthly <= 10
      [] tag = "high-performance" -> size.vcpus >= 4
      [] tag = "high-memory" -> size.memory >= 8192

\* C29: the tags of a DigitalOcean plan are cloud, scalable,
\* developer-friendly, popular, followed in this order by budget if and only
\* if price_monthly <= 10, high-performance if and only if vcpus >= 4 and
\* high-memory if and only if memory >= 8192; no tag occurs twice.
C29_DigitalOceanTags ==
    \A pr \in ReturnedWithRaw("digitalocean") :
        LET tags == pr[1].tags
            wanted == SelectSeq(DOExtraTags, LAMBDA tag : DOTagWanted(tag, pr[2]))
        IN  /\ Len(tags) >= Len(DOBaseTags)
            /\ SubSeq(tags, 1, Len(DOBaseTags)) = DOBaseTags
            /\ SubSeq(tags, Len(DOBaseTags) + 1, Len(tags)) = wanted
            /\ \A i, j \in DOMAIN tags : tags[i] = tags[j] => i = j

\* The DigitalOcean adapter returned a size at exactly 10 a month tagged budget
\* only, and a size with 4 vcpus and 8192 MB tagged high-performance and
\* high-memory but not budget.
C29_Witness ==
    /\ \E pr \in ReturnedWithRaw("digitalocean") :
          /\ pr[2].price_monthly = 10
          /\ pr[1].tags = DOBaseTags \o <<"budget">>
    /\ \E pr \in ReturnedWithRaw("digitalocean") :
          /\ pr[2].vcpus = 4 /\ pr[2].memory = 8192 /\ pr[2].price_monthly > 10
          /\ pr[1].tags = DOBaseTags \o <<"high-performance", "high-memory">>


(***************************************************************************)
(* Requests, responses and bodies                                          *)
(***************************************************************************)

AllOk(a) == [i \in 1..NumRequests(a) |-> "ok"]

\* C30: in every adapter all requests are issued before any response is
\* awaited, and no response body is parsed unless every response has arrived
\* and every one is successful: the responses settle only once every request
\* of the loader is out, response.json() is called and a body is parsed only
\* after all responses have settled as ok, and a failing status on any resource
\* leaves every body unparsed.
C30_RequestsBeforeResponsesBeforeBodies ==
    [][\A a \in AdapterSet :
          /\ net'[a] # net[a] =>
                /\ requests[a] = NumRequests(a)
                /\ requests'[a] = requests[a]
          /\ reads'[a] > reads[a] => net'[a] = AllOk(a)
          /\ body'[a].state # body[a].state =>
                /\ net[a] = AllOk(a)
                /\ net'[a] = net[a]
                /\ requests'[a] = requests[a]
          /\ (\E i \in DOMAIN net'[a] : net'[a][i] # "ok") => body'[a].state = "none"]_vars

\* A loader with several requests has issued them all, got an ok response on
\* its first resource and a failing status on its last, and has ended without
\* parsing a body.
C30_Witness ==
    \E a \in AdapterSet :
        /\ NumRequests(a) > 1
        /\ requests[a] = NumRequests(a)
        /\ net[a] # <<>>
        /\ net[a][1] = "ok"
        /\ net[a][NumRequests(a)] = "bad"
        /\ pc[a] = "done"
        /\ body[a].state = "none"
        /\ result[a] = <<>>

====
